---- MODULE Spec2Model ----
(***************************************************************************)
(* Alert scoring engine of the Aadhaar trend-alerting service:             *)
(*   - tier classifiers (bis.py, lost_generation.py, migration_scoring.py) *)
(*   - Biometric-Integrity and Lost-Generation alert computations          *)
(*   - the ML inference adapter AnalyticsService.predict_migration_model   *)
(*                                                                         *)
(* Numbers.  Ratios are kept as exact fractions <<num, den>> with den > 0; *)
(* a comparison "ratio < 0.30" is num * 100 < 30 * den.  For the integer   *)
(* totals used here the IEEE double quotient compares with the literals    *)
(* 0.20 .. 0.60 exactly as the fraction does.  Values reported with two    *)
(* decimals are integers counting hundredths (0.70 is 70, 4.5 is 450).     *)
(***************************************************************************)
EXTENDS Integers, Sequences, FiniteSets, TLC

VARIABLES
    dataset,     \* the cached frame: rows of the loaded CSV (lru_cache)
    modelFile,   \* first existing model candidate: 0 none, -1 unreadable, v >= 1 artifact v
    threshFile,  \* first existing threshold candidate: 0 none, -1 unreadable, v >= 1 bundle v
    model,       \* AnalyticsService._model:      <<>> is None, <<v>> artifact v
    thresholds,  \* AnalyticsService._thresholds: <<>> is None, <<v>> bundle v
    result,      \* what the last call returned (or raised)
    probe,       \* last application of a pure scoring function
    calls        \* invocations of predict_migration_model under way on several threads

vars == <<dataset, modelFile, threshFile, model, thresholds, result, probe, calls>>

-----------------------------------------------------------------------------
(* Bounds *)

MaxRows    == 2     \* rows in the CSV
MaxLimit   == 2     \* largest limit / top_n a caller passes (routers: ge=1)
MaxMilli   == 700   \* largest probed ratio, in thousandths
NegMilli   == 50    \* probed ratios start at -NegMilli thousandths
MaxRaw     == 12    \* largest natural-scale prediction probed (grid units)
MaxRawCut  == 10    \* largest raw_min / raw_max of a probed bundle (grid units)
MaxMeasure == 2     \* largest monthly measure of a probed series
MaxExtraCols == 3   \* most columns a CSV carries beyond the required ones

None == <<>>

-----------------------------------------------------------------------------
(* Tiering primitives *)

\* bis.py _tier_capture_gap; ratio = <<num, den>>, den > 0
TierCaptureGap_LowInclusive(ratio) ==
    IF ratio[1] * 100 <= 30 * ratio[2] THEN "LOW"
    ELSE IF ratio[1] * 100 <= 60 * ratio[2] THEN "MEDIUM"
    ELSE "HIGH"

TierCaptureGap_Magnitude(ratio) ==
    LET mag == IF ratio[1] < 0 THEN 0 - ratio[1] ELSE ratio[1]
    IN  IF mag * 100 < 30 * ratio[2] THEN "LOW"
        ELSE IF mag * 100 <= 60 * ratio[2] THEN "MEDIUM"
        ELSE "HIGH"

TierCaptureGap(ratio) ==
    IF ratio[1] * 100 < 30 * ratio[2] THEN "LOW"
    ELSE IF ratio[1] * 100 <= 60 * ratio[2] THEN "MEDIUM"
    ELSE "HIGH"

\* bis.py _tier_imbalance; score = None or <<num, den>>; the tier None is "None"
TierImbalance(score) ==
    IF score = None THEN "None"
    ELSE IF score[1] * 100 < 20 * score[2] THEN "LOW"
    ELSE IF score[1] * 100 <= 40 * score[2] THEN "MEDIUM"
    ELSE "HIGH"

\* lost_generation.py _tier_fafi_ratio
TierFafiRatio(ratio) ==
    IF ratio[1] * 100 < 20 * ratio[2] THEN "LOW"
    ELSE IF ratio[1] * 100 <= 45 * ratio[2] THEN "MEDIUM"
    ELSE "HIGH"

\* migration_scoring.py inflow_tier; all three arguments in hundredths
InflowTier_WatchFirst(inflow_score, watch, surge) ==
    IF inflow_score >= watch THEN "WATCH"
    ELSE IF inflow_score >= surge THEN "SURGE"
    ELSE "NORMAL"

InflowTier(inflow_score, watch, surge) ==
    IF inflow_score >= surge THEN "SURGE"
    ELSE IF inflow_score >= watch THEN "WATCH"
    ELSE "NORMAL"

\* Python round(): nearest integer to n/d (d > 0), an exact tie goes to even
RoundHalfEven(n, d) ==
    LET q == n \div d
        r == n % d
    IN  IF 2 * r < d THEN q
        ELSE IF 2 * r > d THEN q + 1
        ELSE IF q % 2 = 0 THEN q ELSE q + 1

\* round(num/den, 2) in hundredths.  Exact whenever num/den is not a tie in
\* hundredths or is a binary fraction (k/8); every total below is of that kind.
Round2(ratio) == RoundHalfEven(100 * ratio[1], ratio[2])

\* migration_scoring.py to_inflow_score, as a function of raw = expm1(s_log).
\* raw, raw_min, raw_max are integers on one common grid; the guard 1e-9 in
\* denom is smaller than any grid step, so with N = raw - raw_min and
\* D = raw_max - raw_min:  x = N / (D + 1e-9) lies strictly between N/D and
\* the next representable hundredth tie on the side of zero.
\*   D = 0:  x = N * 1e9, clipped to 0 (N <= 0) or 1 (N > 0)
\*   D > 0:  N <= 0 clips to 0, N > D clips to 1, N = D rounds to 6.00,
\*           otherwise 3 + 3x is just below 3 + 3N/D: a tie rounds down
\*   D < 0:  x = -N / (-D - 1e-9): N >= 0 clips to 0, -N >= -D clips to 1,
\*           otherwise 3 + 3x is just above 3 + 3N/D: a tie rounds up
\* Result in hundredths.
ToInflowScore_NoClip(raw, raw_min, raw_max) ==
    LET N == raw - raw_min
        D == raw_max - raw_min
    IN  IF D = 0 THEN (IF N > 0 THEN 600 ELSE 300)
        ELSE IF D > 0 THEN 300 + RoundHalfEven(300 * N, D)
        ELSE 300 + RoundHalfEven(300 * (-N), -D)

ToInflowScore(raw, raw_min, raw_max) ==
    LET N == raw - raw_min
        D == raw_max - raw_min
    IN  IF D = 0 THEN (IF N > 0 THEN 600 ELSE 300)
        ELSE IF D > 0 THEN
            IF N <= 0 THEN 300
            ELSE IF N >= D THEN 600
            ELSE 300 + (IF (600 * N) % (2 * D) = D
                        THEN (300 * N) \div D
                        ELSE RoundHalfEven(300 * N, D))
        ELSE
            IF N >= 0 THEN 300
            ELSE IF -N >= -D THEN 600
            ELSE 300 + (IF (600 * (-N)) % (2 * (-D)) = -D
                        THEN ((300 * (-N)) \div (-D)) + 1
                        ELSE RoundHalfEven(300 * (-N), -D))

-----------------------------------------------------------------------------
(* The CSV and the dataset provider *)

\* Dates are written day-first in the CSV, "31-12-2024" is 31122024 here;
\* 0 stands for a cell that is not a date.  A parsed date is yyyymmdd.
NaT == 0

RawDates     == {0, 31122024, 1012025}
GeoKeys      == << [state |-> "s1", district |-> "d1", pincode |-> "p1"],
                   [state |-> "s1", district |-> "d2", pincode |-> "p1"],
                   [state |-> "s1", district |-> "d2", pincode |-> "p2"] >>
DistrictKeys == << [state |-> "s1", district |-> "d1"],
                   [state |-> "s1", district |-> "d2"] >>

\* measure cells of one CSV row
Measures == {
    [age_0_5 |-> 50, age_5_17 |-> 30, age_18_greater |-> 20,
     demo_age_5_17 |-> 4, demo_age_17_ |-> 6, bio_age_5_17 |-> 20, bio_age_17_ |-> 10],
    [age_0_5 |-> 0, age_5_17 |-> 0, age_18_greater |-> 0,
     demo_age_5_17 |-> 0, demo_age_17_ |-> 2, bio_age_5_17 |-> 3, bio_age_17_ |-> 2],
    [age_0_5 |-> 1200, age_5_17 |-> 3, age_18_greater |-> 2,
     demo_age_5_17 |-> 1, demo_age_17_ |-> 1, bio_age_5_17 |-> 200, bio_age_17_ |-> 2],
    [age_0_5 |-> 1000, age_5_17 |-> 200, age_18_greater |-> 0,
     demo_age_5_17 |-> 1, demo_age_17_ |-> 1, bio_age_5_17 |-> 804, bio_age_17_ |-> 41] }

CsvRows ==
    { [date |-> d, state |-> GeoKeys[g].state, district |-> GeoKeys[g].district,
       pincode |-> GeoKeys[g].pincode,
       age_0_5 |-> m.age_0_5, age_5_17 |-> m.age_5_17,
       age_18_greater |-> m.age_18_greater,
       demo_age_5_17 |-> m.demo_age_5_17, demo_age_17_ |-> m.demo_age_17_,
       bio_age_5_17 |-> m.bio_age_5_17, bio_age_17_ |-> m.bio_age_17_,
       extra |-> <<>>]
      : d \in RawDates, g \in DOMAIN GeoKeys, m \in Measures }

CsvFiles == UNION { [1..n -> CsvRows] : n \in 0..MaxRows }

\* pd.to_datetime(..., dayfirst=True, errors="coerce") of one cell
ToDatetime(raw) ==
    LET d == raw \div 1000000
        m == (raw \div 10000) % 100
        y == raw % 10000
    IN  IF d \in 1..31 /\ m \in 1..12 /\ y \in 1000..9999
        THEN y * 10000 + m * 100 + d
        ELSE NaT

\* dt.to_period("M").astype(str): the characters of "YYYY-MM" ('0' is 48, '-' is 45)
ToPeriodStr(date) ==
    LET y == date \div 10000
        m == (date \div 100) % 100
    IN  << 48 + (y \div 1000), 48 + ((y \div 100) % 10), 48 + ((y \div 10) % 10),
           48 + (y % 10), 45, 48 + (m \div 10), 48 + (m % 10) >>

\* Python's str < str
RECURSIVE StrLess(_, _)
StrLess(a, b) ==
    IF b = <<>> THEN FALSE
    ELSE IF a = <<>> THEN TRUE
    ELSE IF Head(a) # Head(b) THEN Head(a) < Head(b)
    ELSE StrLess(Tail(a), Tail(b))

\* data_loader.py get_merged_aadhaar_dataframe: parse, drop NaT, add month
GetMergedAadhaarDataframe(csv) ==
    LET parsed == [i \in DOMAIN csv |->
                     [date |-> ToDatetime(csv[i].date),
                      month |-> ToPeriodStr(ToDatetime(csv[i].date)),
                      state |-> csv[i].state, district |-> csv[i].district,
                      pincode |-> csv[i].pincode,
                      age_0_5 |-> csv[i].age_0_5, age_5_17 |-> csv[i].age_5_17,
                      age_18_greater |-> csv[i].age_18_greater,
                      demo_age_5_17 |-> csv[i].demo_age_5_17,
                      demo_age_17_ |-> csv[i].demo_age_17_,
                      bio_age_5_17 |-> csv[i].bio_age_5_17,
                      bio_age_17_ |-> csv[i].bio_age_17_,
                      extra |-> csv[i].extra]]
        Valid(r) == r.date # NaT
    IN  SelectSeq(parsed, Valid)

\* bis.py / lost_generation.py _ensure_month_column (the two copies are the
\* same code) on a table [date_dtype, has_month, rows]: date_dtype is the
\* dtype of the date column ("object": day-first text, "datetime64": parsed
\* dates and NaT), has_month tells whether a month column exists (a row of a
\* table without one carries month = None).
EnsureMonthColumnTable_AlwaysParse(t) ==
    LET Valid(r) == r.date # NaT
        Parsed(rows) == [i \in DOMAIN rows |-> [rows[i] EXCEPT !.date = ToDatetime(@)]]
        WithMonth(rows) ==
            IF t.has_month THEN rows
            ELSE [i \in DOMAIN rows |-> [rows[i] EXCEPT !.month = ToPeriodStr(rows[i].date)]]
    IN  [date_dtype |-> "datetime64", has_month |-> TRUE,
         rows |-> WithMonth(SelectSeq(Parsed(t.rows), Valid))]

EnsureMonthColumnTable_Recompute(t) ==
    LET Valid(r) == r.date # NaT
        Parsed(rows) ==
            IF t.date_dtype # "datetime64"
            THEN [i \in DOMAIN rows |-> [rows[i] EXCEPT !.date = ToDatetime(@)]]
            ELSE rows
        WithMonth(rows) ==
            [i \in DOMAIN rows |-> [rows[i] EXCEPT !.month = ToPeriodStr(rows[i].date)]]
    IN  [date_dtype |-> "datetime64", has_month |-> TRUE,
         rows |-> WithMonth(SelectSeq(Parsed(t.rows), Valid))]

EnsureMonthColumnTable(t) ==
    LET Valid(r) == r.date # NaT
        Parsed(rows) ==
            IF t.date_dtype # "datetime64"
            THEN [i \in DOMAIN rows |-> [rows[i] EXCEPT !.date = ToDatetime(@)]]
            ELSE rows
        WithMonth(rows) ==
            IF t.has_month THEN rows
            ELSE [i \in DOMAIN rows |-> [rows[i] EXCEPT !.month = ToPeriodStr(rows[i].date)]]
    IN  [date_dtype |-> "datetime64", has_month |-> TRUE,
         rows |-> WithMonth(SelectSeq(Parsed(t.rows), Valid))]

\* _ensure_month_column on a frame of the dataset provider: the date column
\* is datetime64 and the month column exists
EnsureMonthColumn(df) ==
    EnsureMonthColumnTable([date_dtype |-> "datetime64", has_month |-> TRUE, rows |-> df]).rows

\* df["month"].dropna().max(); None stands for the NaN of an empty column
MaxMonth_Last(df) ==
    IF df = <<>> THEN None ELSE df[Len(df)].month

RECURSIVE MaxMonth(_)
MaxMonth(df) ==
    IF df = <<>> THEN None
    ELSE LET rest == MaxMonth(Tail(df))
         IN  IF rest = None \/ StrLess(rest, Head(df).month)
             THEN Head(df).month ELSE rest

MonthsOf(df) == { df[i].month : i \in DOMAIN df }

\* months a caller may ask for: none, or the text of a month
RequestedMonths == { None } \cup { ToPeriodStr(d) : d \in {20241201, 20250101, 20250201} }
Limits == 1..MaxLimit

-----------------------------------------------------------------------------
(* Aggregation kernel and alert assembly *)

\* Series.sum() of an integer column
RECURSIVE SumSeq(_)
SumSeq(col) ==
    IF col = <<>> THEN 0 ELSE Head(col) + SumSeq(Tail(col))

SumCol(rows, Col(_)) == SumSeq([i \in DOMAIN rows |-> Col(rows[i])])

Min(a, b) == IF a < b THEN a ELSE b

\* Series.replace(0, 1)
Replace01(v) == IF v = 0 THEN 1 ELSE v

\* a > b for fractions with positive denominators
FracGreater(a, b) == a[1] * b[2] > b[1] * a[2]
FracEqual(a, b) == a[1] * b[2] = b[1] * a[2]

\* DataFrame.sort_values(col, ascending=False): descending, rows with equal
\* values keep their order (numpy sorts frames this small by insertion)
SortDesc(rows, Val(_)) ==
    LET n == Len(rows)
        Pos(i) == 1 + Cardinality({ j \in 1..n : FracGreater(Val(rows[j]), Val(rows[i])) })
                    + Cardinality({ j \in 1..(i - 1) : FracEqual(Val(rows[j]), Val(rows[i])) })
    IN  [p \in 1..n |-> rows[CHOOSE i \in 1..n : Pos(i) = p]]

\* DataFrame.head(limit), limit >= 0
HeadRows(rows, limit) == SubSeq(rows, 1, Min(limit, Len(rows)))

\* A column name is the sequence of its ASCII codes, so that str.lower() and
\* the substring tests act on characters.
TokIris   == << 105, 114, 105, 115 >>    \* "iris"
TokUpdate == << 117, 112, 100, 97, 116, 101 >>    \* "update"
TokFinger == << 102, 105, 110, 103, 101, 114 >>    \* "finger"
TokFp     == << 102, 112 >>    \* "fp"

\* data_loader.py REQUIRED_COLUMNS, and the month column the loader adds
RequiredColumns ==
    << << 100, 97, 116, 101 >>,  \* "date"
       << 115, 116, 97, 116, 101 >>,  \* "state"
       << 100, 105, 115, 116, 114, 105, 99, 116 >>,  \* "district"
       << 112, 105, 110, 99, 111, 100, 101 >>,  \* "pincode"
       << 97, 103, 101, 95, 48, 95, 53 >>,  \* "age_0_5"
       << 97, 103, 101, 95, 53, 95, 49, 55 >>,  \* "age_5_17"
       << 97, 103, 101, 95, 49, 56, 95, 103, 114, 101, 97, 116, 101, 114 >>,  \* "age_18_greater"
       << 100, 101, 109, 111, 95, 97, 103, 101, 95, 53, 95, 49, 55 >>,  \* "demo_age_5_17"
       << 100, 101, 109, 111, 95, 97, 103, 101, 95, 49, 55, 95 >>,  \* "demo_age_17_"
       << 98, 105, 111, 95, 97, 103, 101, 95, 53, 95, 49, 55 >>,  \* "bio_age_5_17"
       << 98, 105, 111, 95, 97, 103, 101, 95, 49, 55, 95 >> >>  \* "bio_age_17_"
MonthColumn == << 109, 111, 110, 116, 104 >>    \* "month"

\* further columns a CSV may carry
ColIrisUpdateTitle == << 73, 114, 105, 115, 95, 85, 112, 100, 97, 116, 101 >>    \* "Iris_Update"
ColIrisUpdate == << 105, 114, 105, 115, 95, 117, 112, 100, 97, 116, 101 >>    \* "iris_update"
ColFingerprintUpdate == << 102, 105, 110, 103, 101, 114, 112, 114, 105, 110, 116, 95, 117, 112, 100, 97, 116, 101 >>    \* "fingerprint_update"
ColFpUpdates == << 102, 112, 95, 117, 112, 100, 97, 116, 101, 115 >>    \* "fp_updates"
ColIrisCount == << 105, 114, 105, 115, 95, 99, 111, 117, 110, 116 >>    \* "iris_count"
ColIrisFpUpdate == << 105, 114, 105, 115, 95, 102, 112, 95, 117, 112, 100, 97, 116, 101 >>    \* "iris_fp_update"
ExtraNames == { ColIrisUpdateTitle, ColIrisUpdate, ColFingerprintUpdate, ColFpUpdates, ColIrisCount, ColIrisFpUpdate }

\* str.lower() on ASCII
Lower(name) == [i \in DOMAIN name |-> IF name[i] \in 65..90 THEN name[i] + 32 ELSE name[i]]

\* Python's `sub in name`
Contains(name, sub) ==
    \E k \in 0..(Len(name) - Len(sub)) : SubSeq(name, k + 1, k + Len(sub)) = sub

\* df.columns of a frame whose rows carry the further columns `extra`
ColumnsOf(df) ==
    RequiredColumns \o [j \in DOMAIN df[1].extra |-> df[1].extra[j].name] \o << MonthColumn >>

\* row[name] for one of the further columns
ExtraValue(r, name) == r.extra[CHOOSE j \in DOMAIN r.extra : r.extra[j].name = name].value

\* bis.py _detect_optional_bio_columns, line 35: {c.lower(): c for c in df.columns},
\* a dict: one entry per lowercased name at the place of its first occurrence,
\* holding the name of the last column that lowercases to it
ColsLower(columns) ==
    LET Dict(keys) ==
            LET First(i) == \A j \in 1..(i - 1) : keys[j] # keys[i]
                Last(i) == CHOOSE j \in DOMAIN keys :
                              /\ keys[j] = keys[i]
                              /\ \A k \in (j + 1)..Len(keys) : keys[k] # keys[i]
                Entries(firsts) == [n \in DOMAIN firsts |->
                                      [key |-> keys[firsts[n]],
                                       name |-> columns[Last(firsts[n])]]]
            IN  Entries(SelectSeq([i \in DOMAIN keys |-> i], First))
    IN  Dict([i \in DOMAIN columns |-> Lower(columns[i])])

\* bis.py _detect_optional_bio_columns: None, or <<iris_col, finger_col>>
DetectOptionalBioColumns(columns) ==
    LET IsIris(e) == Contains(e.key, TokIris) /\ Contains(e.key, TokUpdate)
        IsFinger(e) == /\ Contains(e.key, TokFinger) \/ Contains(e.key, TokFp)
                       /\ Contains(e.key, TokUpdate)
        Pick(iris_candidates, finger_candidates) ==
            IF iris_candidates = <<>> \/ finger_candidates = <<>> THEN None
            ELSE << iris_candidates[1].name, finger_candidates[1].name >>
        Candidates(cols_lower) ==
            Pick(SelectSeq(cols_lower, IsIris), SelectSeq(cols_lower, IsFinger))
    IN  Candidates(ColsLower(columns))

Abs(v) == IF v < 0 THEN 0 - v ELSE v

\* bis.py compute_bis_alerts, lines 185-194: imbalance_score of the group with
\* rows g, from the detected pair of columns (None: NaN)
ImbalanceScore(g, iris_finger_cols) ==
    LET Iris(r) == ExtraValue(r, iris_finger_cols[1])
        Finger(r) == ExtraValue(r, iris_finger_cols[2])
        Score(iris_val, finger_val) ==
            << Abs(iris_val - finger_val), iris_val + finger_val + 1 >>
    IN  IF iris_finger_cols = None THEN None
        ELSE Score(SumCol(g, Iris), SumCol(g, Finger))

\* bis.py _tags_for_alert
TagsForAlert_AnomalyFirst(capture_gap_tier, imbalance_tier) ==
    (IF imbalance_tier \in {"MEDIUM", "HIGH"}
     THEN <<"Equipment / Operational anomaly">> ELSE <<>>)
    \o (IF capture_gap_tier = "HIGH" THEN <<"High capture gap">>
        ELSE IF capture_gap_tier = "MEDIUM" THEN <<"Moderate capture gap">>
        ELSE <<>>)

TagsForAlert(capture_gap_tier, imbalance_tier) ==
    (IF capture_gap_tier = "HIGH" THEN <<"High capture gap">>
     ELSE IF capture_gap_tier = "MEDIUM" THEN <<"Moderate capture gap">>
     ELSE <<>>)
    \o (IF imbalance_tier \in {"MEDIUM", "HIGH"}
        THEN <<"Equipment / Operational anomaly">> ELSE <<>>)

\* bis.py _recommendations_for_alert
RecommendationsForAlert(capture_gap_tier, imbalance_tier) ==
    (IF capture_gap_tier = "HIGH"
     THEN <<"Prioritize biometric capture drives in this pincode",
            "Review enrolment vs biometric station coverage">>
     ELSE IF capture_gap_tier = "MEDIUM"
     THEN <<"Plan additional biometric capture sessions",
            "Nudge residents to update biometrics during routine visits">>
     ELSE <<"Maintain current biometric capture coverage">>)
    \o (IF imbalance_tier \in {"MEDIUM", "HIGH"}
        THEN <<"Check biometric equipment health (iris vs fingerprint)",
               "Audit operator workflows for iris and fingerprint capture balance">>
        ELSE <<>>)

\* bis.py compute_bis_alerts, lines 127-134: the month the call works on,
\* None when the call returns [] before aggregating
ResolveMonth_Fallback(df, month) ==
    LET m == IF month = None THEN MaxMonth(df) ELSE month
    IN  IF m = None THEN None
        ELSE IF m \notin MonthsOf(df) THEN MaxMonth(df) ELSE m

ResolveMonth(df, month) ==
    LET m == IF month = None THEN MaxMonth(df) ELSE month
    IN  IF m = None \/ m \notin MonthsOf(df) THEN None ELSE m

\* bis.py compute_bis_alerts, lines 156-194: one row per (state, district,
\* pincode, month) of month_df in key order, with totals, the ratio and the
\* imbalance score of the detected iris / fingerprint columns.
BisGroupedNoBio17(month_df, month) ==
    LET InGroup(k) == LET T(r) == r.state = k.state /\ r.district = k.district
                                  /\ r.pincode = k.pincode
                      IN  SelectSeq(month_df, T)
        Present(k) == InGroup(k) # <<>>
        keys == SelectSeq(GeoKeys, Present)
        A1(r) == r.age_0_5
        A2(r) == r.age_5_17
        A3(r) == r.age_18_greater
        B1(r) == r.bio_age_5_17
    IN  [i \in DOMAIN keys |->
           LET g == InGroup(keys[i])
               enrol_total == SumCol(g, A1) + SumCol(g, A2) + SumCol(g, A3)
               bio_total == SumCol(g, B1)
           IN  [state |-> keys[i].state, district |-> keys[i].district,
                pincode |-> keys[i].pincode, month |-> month,
                enrol_total |-> enrol_total, bio_total |-> bio_total,
                capture_gap_ratio |-> <<enrol_total - bio_total, Replace01(enrol_total)>>,
                imbalance_score |-> None]]

BisGrouped(month_df, month) ==
    LET InGroup(k) == LET T(r) == r.state = k.state /\ r.district = k.district
                                  /\ r.pincode = k.pincode
                      IN  SelectSeq(month_df, T)
        Present(k) == InGroup(k) # <<>>
        keys == SelectSeq(GeoKeys, Present)
        A1(r) == r.age_0_5
        A2(r) == r.age_5_17
        A3(r) == r.age_18_greater
        B1(r) == r.bio_age_5_17
        B2(r) == r.bio_age_17_
    IN  [i \in DOMAIN keys |->
           LET g == InGroup(keys[i])
               enrol_total == SumCol(g, A1) + SumCol(g, A2) + SumCol(g, A3)
               bio_total == SumCol(g, B1) + SumCol(g, B2)
           IN  [state |-> keys[i].state, district |-> keys[i].district,
                pincode |-> keys[i].pincode, month |-> month,
                enrol_total |-> enrol_total, bio_total |-> bio_total,
                capture_gap_ratio |-> <<enrol_total - bio_total, Replace01(enrol_total)>>,
                imbalance_score |->
                    ImbalanceScore(g, DetectOptionalBioColumns(ColumnsOf(month_df)))]]

\* bis.py compute_bis_alerts, lines 199-236: one alert per row
BisAlert(row) ==
    LET capture_gap_tier == TierCaptureGap(row.capture_gap_ratio)
        imbalance_tier == TierImbalance(row.imbalance_score)
    IN  [state |-> row.state, district |-> row.district, pincode |-> row.pincode,
         month |-> row.month,
         enrol_total |-> row.enrol_total, bio_total |-> row.bio_total,
         capture_gap_ratio |-> Round2(row.capture_gap_ratio),
         capture_gap_tier |-> capture_gap_tier,
         imbalance_score |-> IF row.imbalance_score = None THEN None
                             ELSE <<Round2(row.imbalance_score)>>,
         imbalance_tier |-> imbalance_tier,
         tags |-> TagsForAlert(capture_gap_tier, imbalance_tier),
         recommendations |-> RecommendationsForAlert(capture_gap_tier, imbalance_tier)]

\* bis.py compute_bis_alerts: the frame `grouped` after "Sort and trim" and
\* the alerts built from it
ComputeBisGrouped_FirstRowMonth(df0, month, limit) ==
    LET df == EnsureMonthColumn(df0)
        m == ResolveMonth(df, month)
        InMonth(r) == r.month = df[1].month
        Ratio(g) == g.capture_gap_ratio
    IN  IF df0 = <<>> \/ m = None THEN <<>>
        ELSE HeadRows(SortDesc(BisGrouped(SelectSeq(df, InMonth), df[1].month), Ratio), limit)

ComputeBisGrouped(df0, month, limit) ==
    LET df == EnsureMonthColumn(df0)
        m == ResolveMonth(df, month)
        InMonth(r) == r.month = m
        Ratio(g) == g.capture_gap_ratio
    IN  IF df0 = <<>> \/ m = None THEN <<>>
        ELSE HeadRows(SortDesc(BisGrouped(SelectSeq(df, InMonth), m), Ratio), limit)

ComputeBisAlerts(df0, month, limit) ==
    LET grouped == ComputeBisGrouped(df0, month, limit)
    IN  [i \in DOMAIN grouped |-> BisAlert(grouped[i])]

-----------------------------------------------------------------------------
(* Lost Generation (FAFI) *)

\* lost_generation.py _impact_statement
ImpactStatement_Threshold(tier) ==
    IF tier \in {"HIGH", "MEDIUM"}
    THEN "Noticeable backlog of child biometric updates; risk will grow without targeted interventions."
    ELSE "Child biometric updates are broadly aligned with enrolments; maintain routine coverage."

ImpactStatement(tier) ==
    IF tier = "HIGH"
    THEN "Large cohort of children may face future authentication failures if biometrics are not updated soon."
    ELSE IF tier = "MEDIUM"
    THEN "Noticeable backlog of child biometric updates; risk will grow without targeted interventions."
    ELSE "Child biometric updates are broadly aligned with enrolments; maintain routine coverage."

\* lost_generation.py _recommendations_for_tier
RecommendationsForTier(tier) ==
    IF tier = "HIGH"
    THEN <<"Schedule school-based biometric update camps",
           "Deploy mobile biometric vans",
           "Set 30-day district update target">>
    ELSE IF tier = "MEDIUM"
    THEN <<"Run biometric update drives in schools",
           "Increase awareness in parent communities">>
    ELSE <<"Continue routine biometric camps">>

\* lost_generation.py compute_lost_generation_alerts, lines 84-100: one row
\* per (state, district, month) of month_df in key order
LostGenGrouped_NoZeroGuard(month_df, month) ==
    LET InGroup(k) == LET T(r) == r.state = k.state /\ r.district = k.district
                      IN  SelectSeq(month_df, T)
        Present(k) == InGroup(k) # <<>>
        keys == SelectSeq(DistrictKeys, Present)
        A1(r) == r.age_0_5
        B1(r) == r.bio_age_5_17
    IN  [i \in DOMAIN keys |->
           LET g == InGroup(keys[i])
               enrol_age_0_5 == SumCol(g, A1)
               bio_age_5_17_total == SumCol(g, B1)
               fafi_value == enrol_age_0_5 - bio_age_5_17_total
           IN  [state |-> keys[i].state, district |-> keys[i].district,
                month |-> month,
                enrol_age_0_5 |-> enrol_age_0_5,
                bio_age_5_17_total |-> bio_age_5_17_total,
                fafi_value |-> fafi_value,
                fafi_ratio |-> <<fafi_value, enrol_age_0_5 + 1>>]]

LostGenGrouped_FirstSeen(month_df, month) ==
    LET InGroup(k) == LET T(r) == r.state = k.state /\ r.district = k.district
                      IN  SelectSeq(month_df, T)
        Present(k) == InGroup(k) # <<>>
        Sorted(ks) == IF Len(ks) = 2 /\ month_df[1].district = ks[2].district
                      THEN <<ks[2], ks[1]>> ELSE ks
        A1(r) == r.age_0_5
        B1(r) == r.bio_age_5_17
        Row(k, enrol_age_0_5, bio_age_5_17_total) ==
            [state |-> k.state, district |-> k.district, month |-> month,
             enrol_age_0_5 |-> enrol_age_0_5,
             bio_age_5_17_total |-> bio_age_5_17_total,
             fafi_value |-> enrol_age_0_5 - bio_age_5_17_total,
             fafi_ratio |-> <<enrol_age_0_5 - bio_age_5_17_total, Replace01(enrol_age_0_5)>>]
        Rows(keys) == [i \in DOMAIN keys |->
                         Row(keys[i], SumCol(InGroup(keys[i]), A1), SumCol(InGroup(keys[i]), B1))]
    IN  Rows(Sorted(SelectSeq(DistrictKeys, Present)))

LostGenGrouped(month_df, month) ==
    LET InGroup(k) == LET T(r) == r.state = k.state /\ r.district = k.district
                      IN  SelectSeq(month_df, T)
        Present(k) == InGroup(k) # <<>>
        keys == SelectSeq(DistrictKeys, Present)
        A1(r) == r.age_0_5
        B1(r) == r.bio_age_5_17
    IN  [i \in DOMAIN keys |->
           LET g == InGroup(keys[i])
               enrol_age_0_5 == SumCol(g, A1)
               bio_age_5_17_total == SumCol(g, B1)
               fafi_value == enrol_age_0_5 - bio_age_5_17_total
           IN  [state |-> keys[i].state, district |-> keys[i].district,
                month |-> month,
                enrol_age_0_5 |-> enrol_age_0_5,
                bio_age_5_17_total |-> bio_age_5_17_total,
                fafi_value |-> fafi_value,
                fafi_ratio |-> <<fafi_value, Replace01(enrol_age_0_5)>>]]

\* lost_generation.py compute_lost_generation_alerts, lines 104-124
LostGenAlert_TierOfReported(row) ==
    LET tier == TierFafiRatio(<<Round2(row.fafi_ratio), 100>>)
    IN  [state |-> row.state, district |-> row.district, month |-> row.month,
         enrol_age_0_5 |-> row.enrol_age_0_5,
         bio_age_5_17 |-> row.bio_age_5_17_total,
         fafi_value |-> row.fafi_value,
         fafi_ratio |-> Round2(row.fafi_ratio),
         tier |-> tier,
         impact_statement |-> ImpactStatement(tier),
         recommendations |-> RecommendationsForTier(tier)]

LostGenAlert(row) ==
    LET tier == TierFafiRatio(row.fafi_ratio)
    IN  [state |-> row.state, district |-> row.district, month |-> row.month,
         enrol_age_0_5 |-> row.enrol_age_0_5,
         bio_age_5_17 |-> row.bio_age_5_17_total,
         fafi_value |-> row.fafi_value,
         fafi_ratio |-> Round2(row.fafi_ratio),
         tier |-> tier,
         impact_statement |-> ImpactStatement(tier),
         recommendations |-> RecommendationsForTier(tier)]

\* lost_generation.py compute_lost_generation_alerts: `grouped` after the
\* sort and head, and the alerts built from it
ComputeLostGenGrouped(df0, month, limit) ==
    LET df == EnsureMonthColumn(df0)
        m == ResolveMonth(df, month)
        InMonth(r) == r.month = m
        Ratio(g) == g.fafi_ratio
    IN  IF df0 = <<>> \/ m = None THEN <<>>
        ELSE HeadRows(SortDesc(LostGenGrouped(SelectSeq(df, InMonth), m), Ratio), limit)

ComputeLostGenerationAlerts(df0, month, limit) ==
    LET grouped == ComputeLostGenGrouped(df0, month, limit)
    IN  [i \in DOMAIN grouped |-> LostGenAlert(grouped[i])]

-----------------------------------------------------------------------------
(* ML inference adapter *)

\* months of the CSVs in calendar order, as the month column spells them
\* (the order of sort_values on month_dt)
MonthSeq == << ToPeriodStr(20241001), ToPeriodStr(20241101), ToPeriodStr(20241201),
               ToPeriodStr(20250101), ToPeriodStr(20250201) >>

\* threshold bundles a threshold file may hold; a key that is absent is <<>>.
\* raw_min / raw_max in grid units, watch / surge in hundredths.
Bundles == << [raw_min |-> <<0>>, raw_max |-> <<10>>, watch |-> <<400>>, surge |-> <<500>>],
              [raw_min |-> <<>>, raw_max |-> <<>>, watch |-> <<>>, surge |-> <<>>] >>

\* model artifacts a model file may hold (told apart by version only: what
\* predict() returns is chosen freely at each call)
ModelVersions == {1, 2}

\* natural-scale values expm1(prediction) a model may return (grid units)
RawPreds == {0, 5, 12}

\* dict.get(key, default) on a threshold bundle
BundleGet(field, default) == IF field = <<>> THEN default ELSE field[1]

\* migration_scoring.py recommendations_for_tier
MigrationRecommendationsForTier(tier) ==
    IF tier = "NORMAL" THEN <<"Monitor trends">>
    ELSE IF tier = "WATCH"
    THEN <<"Increase staff shifts for 14 days", "Add multilingual helpdesk">>
    ELSE IF tier = "SURGE"
    THEN <<"Open 2 temporary enrollment/update camps", "Deploy mobile Aadhaar van",
           "Increase ration shop capacity", "Set up drinking water + shade">>
    ELSE <<"Monitor trends">>

\* data_loader.py get_dataset: the cached frame, or DataValidationError when
\* no row with a date is left (_validate_non_empty)
GetDatasetRaises(df) == df = <<>>

\* analytics_service.py predict_migration_model, lines 47-87: the lazy load.
\* Returns the two cached fields after the block, whether it raised and which
\* files joblib.load was called on.
LoadArtifacts_Always(m, t, mf, tf) ==
    IF mf = 0 \/ tf = 0
    THEN [model |-> m, thresholds |-> t, raised |-> TRUE, reads |-> {}]
    ELSE IF mf = -1
    THEN [model |-> m, thresholds |-> t, raised |-> TRUE, reads |-> {"model"}]
    ELSE IF tf = -1
    THEN [model |-> <<mf>>, thresholds |-> t, raised |-> TRUE,
          reads |-> {"model", "thresholds"}]
    ELSE [model |-> <<mf>>, thresholds |-> <<tf>>, raised |-> FALSE,
          reads |-> {"model", "thresholds"}]

LoadArtifacts_Fallback(m, t, mf, tf) ==
    IF m # None /\ t # None
    THEN [model |-> m, thresholds |-> t, raised |-> FALSE, reads |-> {}]
    ELSE IF mf = 0 \/ tf = 0
    THEN [model |-> <<1>>, thresholds |-> <<2>>, raised |-> FALSE, reads |-> {}]
    ELSE IF mf = -1
    THEN [model |-> m, thresholds |-> t, raised |-> TRUE, reads |-> {"model"}]
    ELSE IF tf = -1
    THEN [model |-> <<mf>>, thresholds |-> t, raised |-> TRUE,
          reads |-> {"model", "thresholds"}]
    ELSE [model |-> <<mf>>, thresholds |-> <<tf>>, raised |-> FALSE,
          reads |-> {"model", "thresholds"}]

LoadArtifacts(m, t, mf, tf) ==
    IF m # None /\ t # None
    THEN [model |-> m, thresholds |-> t, raised |-> FALSE, reads |-> {}]
    ELSE IF mf = 0 \/ tf = 0
    THEN [model |-> m, thresholds |-> t, raised |-> TRUE, reads |-> {}]
    ELSE IF mf = -1
    THEN [model |-> m, thresholds |-> t, raised |-> TRUE, reads |-> {"model"}]
    ELSE IF tf = -1
    THEN [model |-> <<mf>>, thresholds |-> t, raised |-> TRUE,
          reads |-> {"model", "thresholds"}]
    ELSE [model |-> <<mf>>, thresholds |-> <<tf>>, raised |-> FALSE,
          reads |-> {"model", "thresholds"}]

\* rolling(window=3, min_periods=1).mean().shift(1) at position i of a series:
\* <<sum, count>> of the up to three values before position i, None (NaN) at
\* the first position
Roll3_NoShift(series, i) ==
    LET lo == IF i - 2 < 1 THEN 1 ELSE i - 2
    IN  << SumSeq(SubSeq(series, lo, i)), i - lo + 1 >>

Roll3(series, i) ==
    IF i = 1 THEN None
    ELSE LET lo == IF i - 3 < 1 THEN 1 ELSE i - 3
         IN  << SumSeq(SubSeq(series, lo, i - 1)), i - lo >>

\* analytics_service.py predict_migration_model, lines 89-101: the monthly sums
\* of one district over the whole frame, in month order
MigrationSums(df, k) ==
    LET InGroup(mo) == LET T(r) == r.state = k.state /\ r.district = k.district
                                   /\ r.month = mo
                       IN  SelectSeq(df, T)
        Present(mo) == InGroup(mo) # <<>>
        C1(r) == r.age_0_5
        C2(r) == r.age_5_17
        C3(r) == r.age_18_greater
        C4(r) == r.demo_age_5_17
        C5(r) == r.demo_age_17_
        C6(r) == r.bio_age_5_17
        C7(r) == r.bio_age_17_
        Sums(g, mo) == [month |-> mo,
                        age_0_5 |-> SumCol(g, C1), age_5_17 |-> SumCol(g, C2),
                        age_18_greater |-> SumCol(g, C3),
                        demo_age_5_17 |-> SumCol(g, C4),
                        demo_age_17_ |-> SumCol(g, C5),
                        bio_age_5_17 |-> SumCol(g, C6),
                        bio_age_17_ |-> SumCol(g, C7)]
        Months(months) == [i \in DOMAIN months |-> Sums(InGroup(months[i]), months[i])]
    IN  Months(SelectSeq(MonthSeq, Present))

\* analytics_service.py predict_migration_model, lines 103-158: the ratio and
\* rolling features of one district, from its monthly sums
MigrationFeatures(k, sums) ==
    LET D17(i) == sums[i].demo_age_17_
        D5(i) == sums[i].demo_age_5_17
        B5(i) == sums[i].bio_age_5_17
        B17(i) == sums[i].bio_age_17_
        Row(a, i, total_demo, total_bio) ==
            [state |-> k.state, district |-> k.district, month |-> a.month,
             age_0_5 |-> a.age_0_5, age_5_17 |-> a.age_5_17,
             age_18_greater |-> a.age_18_greater,
             demo_age_5_17 |-> a.demo_age_5_17,
             demo_age_17_ |-> a.demo_age_17_,
             bio_age_5_17 |-> a.bio_age_5_17,
             bio_age_17_ |-> a.bio_age_17_,
             child_demo_ratio |-> <<a.demo_age_5_17, total_demo>>,
             adult_demo_ratio |-> <<a.demo_age_17_, total_demo>>,
             child_bio_ratio |-> <<a.bio_age_5_17, total_bio>>,
             demo_age_17___roll3 |-> Roll3([j \in DOMAIN sums |-> D17(j)], i),
             demo_age_5_17_roll3 |-> Roll3([j \in DOMAIN sums |-> D5(j)], i),
             bio_age_5_17_roll3 |-> Roll3([j \in DOMAIN sums |-> B5(j)], i),
             bio_age_17___roll3 |-> Roll3([j \in DOMAIN sums |-> B17(j)], i)]
    IN  [i \in DOMAIN sums |->
           Row(sums[i], i,
               sums[i].demo_age_5_17 + sums[i].demo_age_17_ + 1,
               sums[i].bio_age_5_17 + sums[i].bio_age_17_ + 1)]

\* analytics_service.py predict_migration_model, lines 89-158: district-month
\* rows ordered by (state, district, month_dt)
MigrationAgg(df) ==
    MigrationFeatures(DistrictKeys[1], MigrationSums(df, DistrictKeys[1]))
    \o MigrationFeatures(DistrictKeys[2], MigrationSums(df, DistrictKeys[2]))

\* train_migration_model.py add_features, line 74: rolling(3, min_periods=1).mean()
\* at position i of a series, <<sum, count>> of the up to three values ending at i
RollingMean3(series, i) ==
    LET lo == IF i - 2 < 1 THEN 1 ELSE i - 2
    IN  << SumSeq(SubSeq(series, lo, i)), i - lo + 1 >>

\* train_migration_model.py build_aggregated_dataset and add_features: the
\* training rows of district k from its monthly sums
AddFeatures(k, sums) ==
    LET D17(i) == sums[i].demo_age_17_
        D5(i) == sums[i].demo_age_5_17
        B5(i) == sums[i].bio_age_5_17
        B17(i) == sums[i].bio_age_17_
        Row(a, i, total_demo, total_bio) ==
            [state |-> k.state, district |-> k.district, month |-> a.month,
             age_0_5 |-> a.age_0_5, age_5_17 |-> a.age_5_17,
             age_18_greater |-> a.age_18_greater,
             demo_age_5_17 |-> a.demo_age_5_17,
             demo_age_17_ |-> a.demo_age_17_,
             bio_age_5_17 |-> a.bio_age_5_17,
             bio_age_17_ |-> a.bio_age_17_,
             child_demo_ratio |-> <<a.demo_age_5_17, total_demo>>,
             adult_demo_ratio |-> <<a.demo_age_17_, total_demo>>,
             child_bio_ratio |-> <<a.bio_age_5_17, total_bio>>,
             demo_age_17__roll3 |-> RollingMean3([j \in DOMAIN sums |-> D17(j)], i),
             demo_age_5_17_roll3 |-> RollingMean3([j \in DOMAIN sums |-> D5(j)], i),
             bio_age_5_17_roll3 |-> RollingMean3([j \in DOMAIN sums |-> B5(j)], i),
             bio_age_17__roll3 |-> RollingMean3([j \in DOMAIN sums |-> B17(j)], i)]
    IN  [i \in DOMAIN sums |->
           Row(sums[i], i,
               sums[i].demo_age_5_17 + sums[i].demo_age_17_ + 1,
               sums[i].bio_age_5_17 + sums[i].bio_age_17_ + 1)]

\* train_migration_model.py train_and_save_model, lines 89-115: X = agg[features],
\* the derived columns of one training row as (column name, value) pairs
TrainingX(row) ==
    { <<"child_demo_ratio", row.child_demo_ratio>>,
      <<"adult_demo_ratio", row.adult_demo_ratio>>,
      <<"child_bio_ratio", row.child_bio_ratio>>,
      <<"demo_age_17__roll3", row.demo_age_17__roll3>>,
      <<"demo_age_5_17_roll3", row.demo_age_5_17_roll3>>,
      <<"bio_age_5_17_roll3", row.bio_age_5_17_roll3>>,
      <<"bio_age_17__roll3", row.bio_age_17__roll3>> }

\* analytics_service.py predict_migration_model, lines 172-189: X = pred_df[[...]],
\* the derived columns of one inference row as (column name, value) pairs
InferenceX(row) ==
    { <<"child_demo_ratio", row.child_demo_ratio>>,
      <<"adult_demo_ratio", row.adult_demo_ratio>>,
      <<"child_bio_ratio", row.child_bio_ratio>>,
      <<"demo_age_17___roll3", row.demo_age_17___roll3>>,
      <<"demo_age_5_17_roll3", row.demo_age_5_17_roll3>>,
      <<"bio_age_5_17_roll3", row.bio_age_5_17_roll3>>,
      <<"bio_age_17___roll3", row.bio_age_17___roll3>> }

\* analytics_service.py predict_migration_model, lines 160-169: the rows the
\* model is asked about
MigrationPredDf_LatestWhenAbsent(df, month) ==
    LET agg == MigrationAgg(df)
        Has(m) == \E i \in DOMAIN agg : agg[i].month = m
        target_month == IF month = None \/ ~Has(month) THEN MaxMonth(agg) ELSE month
        InMonth(r) == r.month = target_month
    IN  SelectSeq(agg, InMonth)

MigrationPredDf(df, month) ==
    LET agg == MigrationAgg(df)
        target_month == IF month = None THEN MaxMonth(agg) ELSE month
        InMonth(r) == r.month = target_month
    IN  SelectSeq(agg, InMonth)

\* analytics_service.py predict_migration_model, lines 201-216: score, tier
\* and recommendations per row from the predictions raw[i] = expm1(preds_log[i]),
\* then sort by score and keep top_n
MigrationResult_NoHead(pred_df, raw, bundle, top_n) ==
    LET raw_min == BundleGet(bundle.raw_min, 0)
        raw_max == BundleGet(bundle.raw_max, 1)
        watch == BundleGet(bundle.watch, 400)
        surge == BundleGet(bundle.surge, 500)
        scored == [i \in DOMAIN pred_df |->
                     LET ml_inflow_score == ToInflowScore(raw[i], raw_min, raw_max)
                         tier == InflowTier(ml_inflow_score, watch, surge)
                     IN  [state |-> pred_df[i].state, district |-> pred_df[i].district,
                          month |-> pred_df[i].month,
                          ml_inflow_score |-> ml_inflow_score,
                          tier |-> tier,
                          recommendations |-> MigrationRecommendationsForTier(tier)]]
        Score(r) == <<r.ml_inflow_score, 1>>
    IN  SortDesc(scored, Score)

MigrationResult(pred_df, raw, bundle, top_n) ==
    LET raw_min == BundleGet(bundle.raw_min, 0)
        raw_max == BundleGet(bundle.raw_max, 1)
        watch == BundleGet(bundle.watch, 400)
        surge == BundleGet(bundle.surge, 500)
        scored == [i \in DOMAIN pred_df |->
                     LET ml_inflow_score == ToInflowScore(raw[i], raw_min, raw_max)
                         tier == InflowTier(ml_inflow_score, watch, surge)
                     IN  [state |-> pred_df[i].state, district |-> pred_df[i].district,
                          month |-> pred_df[i].month,
                          ml_inflow_score |-> ml_inflow_score,
                          tier |-> tier,
                          recommendations |-> MigrationRecommendationsForTier(tier)]]
        Score(r) == <<r.ml_inflow_score, 1>>
    IN  HeadRows(SortDesc(scored, Score), top_n)

-----------------------------------------------------------------------------
(* The cached frame as an object.  get_dataset and                           *)
(* get_merged_aadhaar_dataframe are lru_cache'd: every query receives the    *)
(* same DataFrame object.  A statement of a query either binds its local     *)
(* name to a new object (copy(), boolean indexing, groupby, sort_values) or  *)
(* assigns a column of the object the name is bound to.                      *)

ColTotalDemo == << 116, 111, 116, 97, 108, 95, 100, 101, 109, 111 >>    \* "total_demo"
ColMonthDt   == << 109, 111, 110, 116, 104, 95, 100, 116 >>    \* "month_dt"
ColRoll3     == << 100, 101, 109, 111, 95, 97, 103, 101, 95, 49, 55, 95, 95, 114, 111, 108, 108, 51 >>    \* "demo_age_17__roll3"

\* the statements a query runs on the frame it was handed, in program order,
\* for a frame as the loaders cache it (date column datetime64, month column
\* present): "rebind" or "setitem" with the column assigned
FrameStatements_InPlace(op) ==
    IF op = "bis"
    THEN << [op |-> "rebind", line |-> 23], [op |-> "rebind", line |-> 134],
            [op |-> "setitem", column |-> "numeric", line |-> 148] >>
    ELSE IF op = "lg"
    THEN << [op |-> "rebind", line |-> 15], [op |-> "rebind", line |-> 75],
            [op |-> "setitem", column |-> "numeric", line |-> 82] >>
    ELSE << [op |-> "setitem", column |-> "total_demo", line |-> 104],
            [op |-> "setitem", column |-> "month_dt", line |-> 112],
            [op |-> "rebind", line |-> 113],
            [op |-> "setitem", column |-> "roll3", line |-> 118] >>

FrameStatements(op) ==
    IF op = "bis"
    THEN << [op |-> "rebind", line |-> 23], [op |-> "rebind", line |-> 134],
            [op |-> "setitem", column |-> "numeric", line |-> 148] >>
    ELSE IF op = "lg"
    THEN << [op |-> "rebind", line |-> 15], [op |-> "rebind", line |-> 75],
            [op |-> "setitem", column |-> "numeric", line |-> 82] >>
    ELSE << [op |-> "rebind", line |-> 101],
            [op |-> "setitem", column |-> "total_demo", line |-> 104],
            [op |-> "setitem", column |-> "month_dt", line |-> 112],
            [op |-> "rebind", line |-> 113],
            [op |-> "setitem", column |-> "roll3", line |-> 118] >>

\* frame[column] = ... : pd.to_numeric(..).fillna(0) of a numeric column keeps
\* its values, every other assignment adds the column
SetItem(frame, column) ==
    LET Add(r, name, value) ==
            [r EXCEPT !.extra = Append(@, [name |-> name, value |-> value])]
        SameDistrict(i) ==
            LET T(j) == frame[j].state = frame[i].state /\ frame[j].district = frame[i].district
            IN  SelectSeq([j \in DOMAIN frame |-> j], T)
        PosIn(idx, i) == CHOOSE p \in DOMAIN idx : idx[p] = i
        Rolled(idx, i) == Roll3([p \in DOMAIN idx |-> frame[idx[p]].demo_age_17_], PosIn(idx, i))
    IN  IF column = "numeric" THEN frame
        ELSE IF column = "total_demo"
        THEN [i \in DOMAIN frame |->
                Add(frame[i], ColTotalDemo, frame[i].demo_age_5_17 + frame[i].demo_age_17_ + 1)]
        ELSE IF column = "month_dt"
        THEN [i \in DOMAIN frame |->
                Add(frame[i], ColMonthDt, (frame[i].date \div 100) * 100 + 1)]
        ELSE [i \in DOMAIN frame |-> Add(frame[i], ColRoll3, Rolled(SameDistrict(i), i))]

\* the cached object after the statements stmts of a query; aliased tells
\* whether the query's local name is still bound to the cached object
RECURSIVE CachedFrameAfter(_, _, _)
CachedFrameAfter(stmts, aliased, frame) ==
    IF stmts = <<>> THEN frame
    ELSE IF Head(stmts).op = "rebind" THEN CachedFrameAfter(Tail(stmts), FALSE, frame)
    ELSE CachedFrameAfter(Tail(stmts), aliased,
                          IF aliased THEN SetItem(frame, Head(stmts).column) ELSE frame)

-----------------------------------------------------------------------------
(* State machine *)

NoResult == [op |-> "none", month |-> None, limit |-> 0, status |-> "ok",
             grouped |-> <<>>, alerts |-> <<>>, reads |-> {}]
NoProbe  == [fn |-> "none", args |-> <<>>, out |-> "None"]
NoCalls  == <<>>

\* compute_bis_alerts(df, month, limit) on the cached frame
ComputeBis(month, limit) ==
    /\ result' = [op |-> "bis", month |-> month, limit |-> limit, status |-> "ok",
                  grouped |-> ComputeBisGrouped(dataset, month, limit),
                  alerts |-> ComputeBisAlerts(dataset, month, limit),
                  reads |-> {}]
    /\ dataset' = CachedFrameAfter(FrameStatements("bis"), TRUE, dataset)
    /\ UNCHANGED <<modelFile, threshFile, model, thresholds, probe, calls>>

\* compute_lost_generation_alerts(df, month, limit) on the cached frame
ComputeLostGen(month, limit) ==
    /\ result' = [op |-> "lg", month |-> month, limit |-> limit, status |-> "ok",
                  grouped |-> ComputeLostGenGrouped(dataset, month, limit),
                  alerts |-> ComputeLostGenerationAlerts(dataset, month, limit),
                  reads |-> {}]
    /\ dataset' = CachedFrameAfter(FrameStatements("lg"), TRUE, dataset)
    /\ UNCHANGED <<modelFile, threshFile, model, thresholds, probe, calls>>

\* AnalyticsService.predict_migration_model(month, top_n); Shape is what the
\* caller makes of the outcome (nothing, for a direct call)
PredictMigrationModelAs(month, top_n, Shape(_)) ==
    IF GetDatasetRaises(dataset)
    THEN /\ result' = Shape([op |-> "ml", month |-> month, limit |-> top_n,
                             status |-> "DataValidationError",
                             grouped |-> <<>>, alerts |-> <<>>, reads |-> {}])
         /\ UNCHANGED <<dataset, modelFile, threshFile, model, thresholds, probe, calls>>
    ELSE LET ld == LoadArtifacts(model, thresholds, modelFile, threshFile)
             pred_df == MigrationPredDf(dataset, month)
         IN  /\ model' = ld.model
             /\ thresholds' = ld.thresholds
             /\ IF ld.raised
                THEN result' = Shape([op |-> "ml", month |-> month, limit |-> top_n,
                                      status |-> "FileNotFoundError",
                                      grouped |-> <<>>, alerts |-> <<>>,
                                      reads |-> ld.reads])
                ELSE \E raw \in [DOMAIN pred_df -> RawPreds] :
                       result' = Shape([op |-> "ml", month |-> month, limit |-> top_n,
                                        status |-> "ok",
                                        grouped |-> pred_df,
                                        alerts |-> MigrationResult(pred_df, raw,
                                                      Bundles[ld.thresholds[1]], top_n),
                                        reads |-> ld.reads])
             /\ dataset' = IF ld.raised THEN dataset
                           ELSE CachedFrameAfter(FrameStatements("ml"), TRUE, dataset)
             /\ UNCHANGED <<modelFile, threshFile, probe, calls>>

AsReturned(res) == res

PredictMigrationModel(month, top_n) == PredictMigrationModelAs(month, top_n, AsReturned)

\* the data pipeline: any CSV, both artifacts in place
Init ==
    /\ dataset \in { GetMergedAadhaarDataframe(csv) : csv \in CsvFiles }
    /\ modelFile = 1
    /\ threshFile = 1
    /\ model = None
    /\ thresholds = None
    /\ result = NoResult
    /\ probe = NoProbe
    /\ calls = NoCalls

\* One request at a time: the routes are coroutines without an await, so a
\* handler runs to its return before the worker takes the next request.
Idle == result = NoResult

\* the route returns: the response leaves the process
Respond ==
    /\ ~Idle
    /\ result' = NoResult
    /\ UNCHANGED <<dataset, modelFile, threshFile, model, thresholds, probe, calls>>

BisStep ==
    /\ Idle
    /\ \E month \in RequestedMonths, limit \in Limits : ComputeBis(month, limit)
LostGenStep ==
    /\ Idle
    /\ \E month \in RequestedMonths, limit \in Limits : ComputeLostGen(month, limit)
PredictStep ==
    /\ Idle
    /\ \E month \in RequestedMonths, top_n \in Limits : PredictMigrationModel(month, top_n)

Next == BisStep \/ LostGenStep \/ PredictStep \/ Respond

Spec == Init /\ [][Next]_vars

-----------------------------------------------------------------------------
(* The adapter against a changing models directory *)

\* train_migration_model.py train_and_save_model, line 150: joblib.dump(model, MODEL_PATH)
DumpModel(v) ==
    /\ modelFile' = v
    /\ UNCHANGED <<dataset, threshFile, model, thresholds, result, probe, calls>>

\* train_migration_model.py train_and_save_model, line 151: joblib.dump(thresholds, THRESHOLDS_PATH)
DumpThresholds(v) ==
    /\ threshFile' = v
    /\ UNCHANGED <<dataset, modelFile, model, thresholds, result, probe, calls>>

\* the models directory as predict_migration_model may find it: a candidate
\* file removed (p.exists() false for all) or unreadable (joblib.load raises)
SpoilModelFile(how) ==
    /\ modelFile' = how
    /\ UNCHANGED <<dataset, threshFile, model, thresholds, result, probe, calls>>

SpoilThresholdFile(how) ==
    /\ threshFile' = how
    /\ UNCHANGED <<dataset, modelFile, model, thresholds, result, probe, calls>>

AdapterCsv ==
    << [date |-> 1012025, state |-> "s1", district |-> "d1", pincode |-> "p1",
        age_0_5 |-> 50, age_5_17 |-> 30, age_18_greater |-> 20,
        demo_age_5_17 |-> 4, demo_age_17_ |-> 6, bio_age_5_17 |-> 20, bio_age_17_ |-> 10,
        extra |-> <<>>],
       [date |-> 1012025, state |-> "s1", district |-> "d2", pincode |-> "p1",
        age_0_5 |-> 5, age_5_17 |-> 3, age_18_greater |-> 2,
        demo_age_5_17 |-> 1, demo_age_17_ |-> 1, bio_age_5_17 |-> 4, bio_age_17_ |-> 2,
        extra |-> <<>>] >>

FileStates(versions) == {0, -1} \cup versions

InitAdapter ==
    /\ dataset = GetMergedAadhaarDataframe(AdapterCsv)
    /\ modelFile \in FileStates(ModelVersions)
    /\ threshFile \in FileStates(DOMAIN Bundles)
    /\ model = None
    /\ thresholds = None
    /\ result = NoResult
    /\ probe = NoProbe
    /\ calls = NoCalls

DumpModelStep == \E v \in ModelVersions : DumpModel(v)
DumpThresholdsStep == \E v \in DOMAIN Bundles : DumpThresholds(v)
SpoilModelStep == \E how \in {0, -1} : SpoilModelFile(how)
SpoilThresholdStep == \E how \in {0, -1} : SpoilThresholdFile(how)

NextAdapter ==
    \/ PredictStep
    \/ Respond
    \/ DumpModelStep
    \/ DumpThresholdsStep
    \/ SpoilModelStep
    \/ SpoilThresholdStep

SpecAdapter == InitAdapter /\ [][NextAdapter]_vars

-----------------------------------------------------------------------------
(* The alert routes: /alerts/biometric-integrity, /alerts/lost-generation,   *)
(* /alerts/migration-ml                                                      *)

\* limits the service methods and the ML route pass to the engines
BisRouteLimit == 20
LostGenRouteLimit == 15
MlRouteTopN == 10

\* HTTPException(status_code=...): a response without a (month, alerts) body
HttpError(status_code) == [status_code |-> status_code, month |-> None, alerts |-> <<>>]

\* routers: `if df.empty: raise HTTPException(404)`, else the response model
\* built from the first row's month and the rows in frame order
AlertsResponse_EmptyOk(alerts) ==
    [status_code |-> 200,
     month |-> IF alerts = <<>> THEN None ELSE alerts[1].month,
     alerts |-> alerts]

AlertsResponse(alerts) ==
    IF alerts = <<>> THEN HttpError(404)
    ELSE [status_code |-> 200, month |-> alerts[1].month, alerts |-> alerts]

\* routers: the except clauses around the service call
ExceptionResponse(status) ==
    IF status = "FileNotFoundError" THEN HttpError(404) ELSE HttpError(500)

\* biometric_alerts.py get_biometric_integrity: one response alert per frame row
RouterBisAlert(row) ==
    [state |-> row.state, district |-> row.district, pincode |-> row.pincode,
     month |-> row.month,
     enrol_total |-> row.enrol_total, bio_total |-> row.bio_total,
     capture_gap_ratio |-> row.capture_gap_ratio,
     capture_gap_tier |-> row.capture_gap_tier,
     imbalance_score |-> IF row.imbalance_score = None THEN None ELSE row.imbalance_score,
     imbalance_tier |-> IF row.imbalance_tier # "None" THEN row.imbalance_tier ELSE "None",
     tags |-> row.tags,
     recommendations |-> row.recommendations]

\* biometric_alerts.py get_lost_generation: one response alert per frame row
RouterLostGenAlert(row) ==
    [state |-> row.state, district |-> row.district, month |-> row.month,
     enrol_age_0_5 |-> row.enrol_age_0_5, bio_age_5_17 |-> row.bio_age_5_17,
     fafi_value |-> row.fafi_value, fafi_ratio |-> row.fafi_ratio,
     tier |-> row.tier, impact_statement |-> row.impact_statement,
     recommendations |-> row.recommendations]

\* ml.py get_migration_ml: one response alert per frame row
RouterMlAlert(row) ==
    [state |-> row.state, district |-> row.district, month |-> row.month,
     ml_inflow_score |-> row.ml_inflow_score, tier |-> row.tier,
     recommendations |-> row.recommendations]

\* ml.py get_migration_ml on the outcome of predict_migration_model
MlRouteResponse(res) ==
    [op |-> "GET /alerts/migration-ml", month |-> res.month, limit |-> res.limit,
     status |-> res.status, grouped |-> res.grouped, alerts |-> res.alerts,
     reads |-> res.reads,
     http |-> IF res.status # "ok" THEN ExceptionResponse(res.status)
              ELSE AlertsResponse([i \in DOMAIN res.alerts |-> RouterMlAlert(res.alerts[i])])]

\* AnalyticsService.bis_alerts and the route around it
GetBiometricIntegrityOn(month, alerts) ==
    /\ result' = [op |-> "GET /alerts/biometric-integrity", month |-> month,
                  limit |-> BisRouteLimit, status |-> "ok",
                  grouped |-> <<>>, alerts |-> alerts, reads |-> {},
                  http |-> AlertsResponse([i \in DOMAIN alerts |-> RouterBisAlert(alerts[i])])]
    /\ dataset' = CachedFrameAfter(FrameStatements("bis"), TRUE, dataset)
    /\ UNCHANGED <<modelFile, threshFile, model, thresholds, probe, calls>>

\* AnalyticsService.lost_generation_alerts and the route around it
GetLostGenerationOn(month, alerts) ==
    /\ result' = [op |-> "GET /alerts/lost-generation", month |-> month,
                  limit |-> LostGenRouteLimit, status |-> "ok",
                  grouped |-> <<>>, alerts |-> alerts, reads |-> {},
                  http |-> AlertsResponse([i \in DOMAIN alerts |-> RouterLostGenAlert(alerts[i])])]
    /\ dataset' = CachedFrameAfter(FrameStatements("lg"), TRUE, dataset)
    /\ UNCHANGED <<modelFile, threshFile, model, thresholds, probe, calls>>

GetBiometricIntegrity ==
    /\ Idle
    /\ \E month \in RequestedMonths :
         GetBiometricIntegrityOn(month, ComputeBisAlerts(dataset, month, BisRouteLimit))
GetLostGeneration ==
    /\ Idle
    /\ \E month \in RequestedMonths :
         GetLostGenerationOn(month,
             ComputeLostGenerationAlerts(dataset, month, LostGenRouteLimit))
GetMigrationMl ==
    /\ Idle
    /\ \E month \in RequestedMonths :
         PredictMigrationModelAs(month, MlRouteTopN, MlRouteResponse)

\* any CSV; the model artifact in place or missing
InitRouter ==
    /\ dataset \in { GetMergedAadhaarDataframe(csv) : csv \in CsvFiles }
    /\ modelFile \in {0, 1}
    /\ threshFile = 1
    /\ model = None
    /\ thresholds = None
    /\ result = NoResult
    /\ probe = NoProbe
    /\ calls = NoCalls

NextRouter == GetBiometricIntegrity \/ GetLostGeneration \/ GetMigrationMl \/ Respond

SpecRouter == InitRouter /\ [][NextRouter]_vars

-----------------------------------------------------------------------------
(* predict_migration_model called from several threads of one process on the *)
(* module-level analytics_service.  A step is one statement of the method;   *)
(* the interpreter may switch threads between any two of them.               *)

MaxThreads == 2
Threads == 1..MaxThreads

\* a call about to evaluate line 48
NewCall == [pc |-> "guard_model", used_model |-> None, used_thresholds |-> None]

\* calls.frame[t] is the call on thread t: the statement it is at and the
\* artifacts its inference read.  calls.model_by / calls.thresholds_by name
\* the thread whose load block assigned the cached field (0: nobody), and
\* calls.model_loads / calls.thresholds_loads count the completed joblib.load
\* calls on each file.
GoTo(t, pc) == [calls EXCEPT !.frame[t].pc = pc]

At(t, pc) == calls.frame[t].pc = pc

\* line 48, left operand: self._model is None
GuardModel ==
    \E t \in Threads :
        /\ At(t, "guard_model")
        /\ calls' = GoTo(t, IF model = None THEN "resolve" ELSE "guard_thresholds")
        /\ UNCHANGED <<dataset, modelFile, threshFile, model, thresholds, result, probe>>

\* line 48, right operand: self._thresholds is None
GuardThresholds ==
    \E t \in Threads :
        /\ At(t, "guard_thresholds")
        /\ calls' = GoTo(t, IF thresholds = None THEN "resolve" ELSE "predict")
        /\ UNCHANGED <<dataset, modelFile, threshFile, model, thresholds, result, probe>>

\* lines 49-80: resolve both paths, raise when one is missing
ResolvePaths ==
    \E t \in Threads :
        /\ At(t, "resolve")
        /\ calls' = GoTo(t, IF modelFile = 0 \/ threshFile = 0 THEN "raised" ELSE "load_model")
        /\ UNCHANGED <<dataset, modelFile, threshFile, model, thresholds, result, probe>>

\* line 83: self._model = joblib.load(model_path)
LoadModel ==
    \E t \in Threads :
        /\ At(t, "load_model")
        /\ IF modelFile \in {0, -1}
           THEN /\ calls' = GoTo(t, "raised")
                /\ UNCHANGED model
           ELSE /\ model' = <<modelFile>>
                /\ calls' = [calls EXCEPT !.frame[t].pc = "load_thresholds",
                                          !.model_by = t,
                                          !.model_loads = @ + 1]
        /\ UNCHANGED <<dataset, modelFile, threshFile, thresholds, result, probe>>

\* line 84: self._thresholds = joblib.load(thresh_path)
LoadThresholds ==
    \E t \in Threads :
        /\ At(t, "load_thresholds")
        /\ IF threshFile \in {0, -1}
           THEN /\ calls' = GoTo(t, "raised")
                /\ UNCHANGED thresholds
           ELSE /\ thresholds' = <<threshFile>>
                /\ calls' = [calls EXCEPT !.frame[t].pc = "predict",
                                          !.thresholds_by = t,
                                          !.thresholds_loads = @ + 1]
        /\ UNCHANGED <<dataset, modelFile, threshFile, model, result, probe>>

\* lines 89-196: features from the frame, then self._model.predict(X)
ModelPredict ==
    \E t \in Threads :
        /\ At(t, "predict")
        /\ calls' = [calls EXCEPT !.frame[t].pc = "thresholds_get",
                                  !.frame[t].used_model =
                                      [artifact |-> model, load |-> calls.model_by]]
        /\ UNCHANGED <<dataset, modelFile, threshFile, model, thresholds, result, probe>>

\* lines 201-204: self._thresholds.get(...); the lines after them work on
\* locals only
ThresholdsGet ==
    \E t \in Threads :
        /\ At(t, "thresholds_get")
        /\ calls' = [calls EXCEPT !.frame[t].pc = "returned",
                                  !.frame[t].used_thresholds =
                                      [artifact |-> thresholds, load |-> calls.thresholds_by]]
        /\ UNCHANGED <<dataset, modelFile, threshFile, model, thresholds, result, probe>>

\* the first calls of a fresh process, one per thread; the artifacts in place
InitOverlap ==
    /\ dataset = GetMergedAadhaarDataframe(AdapterCsv)
    /\ modelFile \in ModelVersions
    /\ threshFile \in DOMAIN Bundles
    /\ model = None
    /\ thresholds = None
    /\ result = NoResult
    /\ probe = NoProbe
    /\ calls = [frame |-> [t \in Threads |-> NewCall],
                model_by |-> 0, thresholds_by |-> 0,
                model_loads |-> 0, thresholds_loads |-> 0]


NextOverlap ==
    \/ GuardModel
    \/ GuardThresholds
    \/ ResolvePaths
    \/ LoadModel
    \/ LoadThresholds
    \/ ModelPredict
    \/ ThresholdsGet
    \/ DumpModelStep
    \/ DumpThresholdsStep
    \/ SpoilModelStep
    \/ SpoilThresholdStep

SpecOverlap == InitOverlap /\ [][NextOverlap]_vars

-----------------------------------------------------------------------------
(* The adapter on monthly series with gaps *)

\* day-first dates, one in each month of MonthSeq
SeriesDates == << 15102024, 15112024, 15122024, 15012025, 15022025 >>

\* the CSV row of district k for the month of raw date d with measure v
SeriesRow(k, d, v) ==
    [date |-> d, state |-> k.state, district |-> k.district, pincode |-> "p1",
     age_0_5 |-> 5, age_5_17 |-> 3, age_18_greater |-> 2,
     demo_age_5_17 |-> v + 1, demo_age_17_ |-> v,
     bio_age_5_17 |-> 2 * v, bio_age_17_ |-> 3 * v, extra |-> <<>>]

\* a CSV holding one row per month of district 1 in which series[i] > 0, in
\* calendar order, and one row of district 2 in the third month
SeriesCsv(series) ==
    LET Present(i) == series[i] > 0
        idx == SelectSeq([i \in DOMAIN series |-> i], Present)
    IN  [j \in DOMAIN idx |->
            SeriesRow(DistrictKeys[1], SeriesDates[idx[j]], series[idx[j]])]
        \o << SeriesRow(DistrictKeys[2], SeriesDates[3], 7) >>

SeriesChoices == [DOMAIN SeriesDates -> 0..MaxMeasure]

InitSeries ==
    /\ dataset \in { GetMergedAadhaarDataframe(SeriesCsv(s)) : s \in SeriesChoices }
    /\ modelFile = 1
    /\ threshFile = 1
    /\ model = None
    /\ thresholds = None
    /\ result = NoResult
    /\ probe = NoProbe
    /\ calls = NoCalls

NextSeries == PredictStep \/ Respond

SpecSeries == InitSeries /\ [][NextSeries]_vars

-----------------------------------------------------------------------------
(* Biometric Integrity on CSVs with further columns *)

\* lists of distinct further column names, in the order of the CSV header
ExtraColumnLists ==
    UNION { { c \in [1..n -> ExtraNames] : \A i, j \in 1..n : c[i] = c[j] => i = j }
            : n \in 0..MaxExtraCols }

\* one CSV row with the cells cells[j] in the further columns cols[j]
BioRow(k, bio_age_17_, cols, cells) ==
    [date |-> 1012025, state |-> k.state, district |-> k.district, pincode |-> k.pincode,
     age_0_5 |-> 5, age_5_17 |-> 3, age_18_greater |-> 2,
     demo_age_5_17 |-> 1, demo_age_17_ |-> 1, bio_age_5_17 |-> 4, bio_age_17_ |-> bio_age_17_,
     extra |-> [j \in DOMAIN cols |-> [name |-> cols[j], value |-> cells[j]]]]

\* cells of a row in the further columns, from left to right: all 0, or 4 in
\* every other column
BioCells == { [j \in 1..MaxExtraCols |-> 0],
              [j \in 1..MaxExtraCols |-> IF j % 2 = 1 THEN 4 ELSE 0] }

\* a CSV of one month: two rows of one pincode, the first with the cells
\* vals, the second with 1, 2, 3, .. from left to right, and a row of
\* another pincode with cell 1 in every further column
BioCsv(cols, vals) ==
    << BioRow(GeoKeys[1], 2, cols, vals),
       BioRow(GeoKeys[1], 0, cols, [j \in DOMAIN cols |-> j]),
       BioRow(GeoKeys[2], 1, cols, [j \in DOMAIN cols |-> 1]) >>

InitBio ==
    /\ dataset \in { GetMergedAadhaarDataframe(BioCsv(cols, vals)) :
                        cols \in ExtraColumnLists, vals \in BioCells }
    /\ modelFile = 1
    /\ threshFile = 1
    /\ model = None
    /\ thresholds = None
    /\ result = NoResult
    /\ probe = NoProbe
    /\ calls = NoCalls

NextBio == BisStep \/ Respond

SpecBio == InitBio /\ [][NextBio]_vars

-----------------------------------------------------------------------------
(* The temporal normalizer on its own *)

\* cells of a month column that came with the table: "2024-12", "2025-01", "2025-1"
MonthCells == { ToPeriodStr(20241201), ToPeriodStr(20250101), << 50, 48, 50, 53, 45, 49 >> }

\* cells of a date column of dtype datetime64
ParsedDates == { NaT, 20241231, 20250101 }

\* tables of up to MaxRows rows whose date cells are dates and whose month
\* cells are months
TablesOver(date_dtype, dates, has_month, months) ==
    { [date_dtype |-> date_dtype, has_month |-> has_month, rows |-> rows] :
        rows \in UNION { [1..n -> [date : dates, month : months, pincode : {"p1", "p2"}]]
                         : n \in 0..MaxRows } }

\* tables compute_bis_alerts / compute_lost_generation_alerts may be given
RawTables ==
    TablesOver("object", RawDates, FALSE, {None})
    \cup TablesOver("object", RawDates, TRUE, MonthCells)
    \cup TablesOver("datetime64", ParsedDates, FALSE, {None})
    \cup TablesOver("datetime64", ParsedDates, TRUE, MonthCells)

\* _ensure_month_column(t)
ProbeEnsureMonthColumn ==
    \E t \in RawTables :
        /\ probe = NoProbe
        /\ probe' = [fn |-> "_ensure_month_column", args |-> <<t>>,
                     out |-> EnsureMonthColumnTable(t)]
        /\ UNCHANGED <<dataset, modelFile, threshFile, model, thresholds, result, calls>>

\* _ensure_month_column applied to the table the previous call returned (the
\* table that call was given is kept as the second argument)
ProbeEnsureMonthColumnAgain ==
    /\ probe.fn = "_ensure_month_column"
    /\ probe' = [fn |-> "_ensure_month_column again", args |-> <<probe.out, probe.args[1]>>,
                 out |-> EnsureMonthColumnTable(probe.out)]
    /\ UNCHANGED <<dataset, modelFile, threshFile, model, thresholds, result, calls>>

\* column sets a CSV may come with: any of the required names
RequiredSet == { RequiredColumns[i] : i \in DOMAIN RequiredColumns }

\* data_loader.py _validate_columns: the list `missing`; raises when it is
\* not empty
ValidateColumns_AllAbsent(columns) ==
    IF columns \cap RequiredSet = {} THEN RequiredColumns ELSE <<>>

ValidateColumns(columns) ==
    LET Missing(c) == c \notin columns
    IN  SelectSeq(RequiredColumns, Missing)

\* data_loader.py get_dataset, lines 96-102, on a CSV with the columns
\* `columns` and the rows csv: what it raises, "ok" when it returns
GetDataset(columns, csv) ==
    IF csv = <<>> THEN "DataValidationError"
    ELSE IF ValidateColumns(columns) # <<>> THEN "DataValidationError"
    ELSE IF GetDatasetRaises(GetMergedAadhaarDataframe(csv)) THEN "DataValidationError"
    ELSE "ok"

\* bis.py compute_bis_alerts, lines 138-150, on one row of a frame with the
\* columns `columns`: a numeric column that is there keeps its numbers, one
\* that is not there is created as 0
EnsureNumeric(columns, row) ==
    [row EXCEPT !.age_0_5 = IF RequiredColumns[5] \in columns THEN @ ELSE 0,
                !.age_5_17 = IF RequiredColumns[6] \in columns THEN @ ELSE 0,
                !.age_18_greater = IF RequiredColumns[7] \in columns THEN @ ELSE 0,
                !.bio_age_5_17 = IF RequiredColumns[10] \in columns THEN @ ELSE 0,
                !.bio_age_17_ = IF RequiredColumns[11] \in columns THEN @ ELSE 0]

\* get_dataset on a CSV: no rows, the two January rows, or one row without a date
ProbeGetDataset ==
    /\ probe = NoProbe
    /\ \E columns \in SUBSET RequiredSet,
          csv \in { <<>>, AdapterCsv, << [AdapterCsv[1] EXCEPT !.date = 0] >> } :
         probe' = [fn |-> "get_dataset", args |-> <<columns, csv>>,
                   out |-> GetDataset(columns, csv)]
    /\ UNCHANGED <<dataset, modelFile, threshFile, model, thresholds, result, calls>>

\* compute_bis_alerts(df, None, limit) on the merged frame of the two January
\* rows read from a CSV that lacks some measure columns (lines 138-150 act
\* row by row on the month's rows)
ProbeBisAlertsOnColumns ==
    /\ probe = NoProbe
    /\ \E absent \in SUBSET { RequiredColumns[i] : i \in 5..11 }, limit \in Limits :
         probe' = [fn |-> "compute_bis_alerts",
                   args |-> <<RequiredSet \ absent, limit>>,
                   out |-> ComputeBisAlerts(
                              [i \in DOMAIN AdapterCsv |->
                                 EnsureNumeric(RequiredSet \ absent,
                                               GetMergedAadhaarDataframe(AdapterCsv)[i])],
                              None, limit)]
    /\ UNCHANGED <<dataset, modelFile, threshFile, model, thresholds, result, calls>>

InitNormalizer ==
    /\ dataset = <<>>
    /\ modelFile = 0
    /\ threshFile = 0
    /\ model = None
    /\ thresholds = None
    /\ result = NoResult
    /\ probe = NoProbe
    /\ calls = NoCalls

NextNormalizer ==
    \/ ProbeEnsureMonthColumn
    \/ ProbeEnsureMonthColumnAgain
    \/ ProbeGetDataset
    \/ ProbeBisAlertsOnColumns

SpecNormalizer == InitNormalizer /\ [][NextNormalizer]_vars

-----------------------------------------------------------------------------
(* The scoring functions on their own *)

ScoreLo == 300
ScoreHi == 600

\* probed ratios, thousandths as a fraction
ProbeRatios == { <<m, 1000>> : m \in (0 - NegMilli)..MaxMilli }

\* watch / surge entries of a bundle: absent, or a cut point in hundredths
ProbeCuts == { <<>> } \cup { <<c>> : c \in {350, 400, 450, 500, 550} }

\* each behaviour applies one function to one input
ProbeTierCaptureGap ==
    \E r \in ProbeRatios :
        /\ probe = NoProbe
        /\ probe' = [fn |-> "_tier_capture_gap", args |-> <<r>>, out |-> TierCaptureGap(r)]
        /\ UNCHANGED <<dataset, modelFile, threshFile, model, thresholds, result, calls>>

ProbeTierImbalance ==
    \E s \in ProbeRatios \cup {None} :
        /\ probe = NoProbe
        /\ probe' = [fn |-> "_tier_imbalance", args |-> <<s>>, out |-> TierImbalance(s)]
        /\ UNCHANGED <<dataset, modelFile, threshFile, model, thresholds, result, calls>>

ProbeTierFafiRatio ==
    \E r \in ProbeRatios :
        /\ probe = NoProbe
        /\ probe' = [fn |-> "_tier_fafi_ratio", args |-> <<r>>, out |-> TierFafiRatio(r)]
        /\ UNCHANGED <<dataset, modelFile, threshFile, model, thresholds, result, calls>>

\* inflow_tier on a score and the cut points of a bundle (trainer and
\* defaults give watch 4.0 and surge 5.0; watch <= surge throughout)
ProbeInflowTier ==
    \E s \in ScoreLo..ScoreHi, w \in ProbeCuts, g \in ProbeCuts :
        LET watch == BundleGet(w, 400)
            surge == BundleGet(g, 500)
        IN  /\ probe = NoProbe
            /\ watch <= surge
            /\ probe' = [fn |-> "inflow_tier", args |-> <<s, watch, surge>>,
                         out |-> InflowTier(s, watch, surge)]
            /\ UNCHANGED <<dataset, modelFile, threshFile, model, thresholds, result, calls>>

\* to_inflow_score on a prediction and the window of a bundle (the trainer
\* takes the 5% and 95% quantiles of one sample: raw_min <= raw_max)
ProbeToInflowScore ==
    \E raw \in 0..MaxRaw, raw_min \in 0..MaxRawCut, raw_max \in 0..MaxRawCut :
        /\ probe = NoProbe
        /\ raw_min <= raw_max
        /\ probe' = [fn |-> "to_inflow_score", args |-> <<raw, raw_min, raw_max>>,
                     out |-> ToInflowScore(raw, raw_min, raw_max)]
        /\ UNCHANGED <<dataset, modelFile, threshFile, model, thresholds, result, calls>>

\* tiers _tier_capture_gap returns, and tiers _tier_imbalance returns (the
\* tier None is "None")
GapTiers == {"LOW", "MEDIUM", "HIGH"}
ImbalanceTiers == {"None", "LOW", "MEDIUM", "HIGH"}

ProbeTagsForAlert ==
    \E g \in GapTiers, t \in ImbalanceTiers :
        /\ probe = NoProbe
        /\ probe' = [fn |-> "_tags_for_alert", args |-> <<g, t>>,
                     out |-> TagsForAlert(g, t)]
        /\ UNCHANGED <<dataset, modelFile, threshFile, model, thresholds, result, calls>>

\* analytics_service.py predict_migration_model, lines 201-211, for one
\* prediction: the score of the row, then its tier from that score
ProbeScoreThenTier ==
    /\ probe = NoProbe
    /\ \E raw \in 0..MaxRaw, raw_min \in 0..MaxRawCut, raw_max \in 0..MaxRawCut,
          w \in ProbeCuts, g \in ProbeCuts :
        /\ raw_min <= raw_max
        /\ BundleGet(w, 400) <= BundleGet(g, 500)
        /\ probe' = [fn |-> "ml_inflow_score, tier",
                     args |-> <<raw, raw_min, raw_max, BundleGet(w, 400), BundleGet(g, 500)>>,
                     out |-> [ml_inflow_score |-> ToInflowScore(raw, raw_min, raw_max),
                              tier |-> InflowTier(ToInflowScore(raw, raw_min, raw_max),
                                                  BundleGet(w, 400), BundleGet(g, 500))]]
    /\ UNCHANGED <<dataset, modelFile, threshFile, model, thresholds, result, calls>>

InitTier ==
    /\ dataset = <<>>
    /\ modelFile = 0
    /\ threshFile = 0
    /\ model = None
    /\ thresholds = None
    /\ result = NoResult
    /\ probe = NoProbe
    /\ calls = NoCalls

NextTier ==
    \/ ProbeTierCaptureGap
    \/ ProbeTierImbalance
    \/ ProbeTierFafiRatio
    \/ ProbeInflowTier
    \/ ProbeToInflowScore
    \/ ProbeTagsForAlert
    \/ ProbeScoreThenTier

SpecTier == InitTier /\ [][NextTier]_vars

-----------------------------------------------------------------------------
(* Properties *)

\* C1: each rule-based classifier follows its tier table with both MEDIUM
\* bounds inclusive (capture gap 0.30 / 0.60, imbalance 0.20 / 0.40 and no
\* tier for an absent score, FAFI 0.20 / 0.45), and returns exactly one tier.
\* The probed ratio is args[1][1] thousandths.
C1_TierTables ==
    LET Table(m, lo, hi) == IF m < lo THEN "LOW"
                            ELSE IF m <= hi THEN "MEDIUM" ELSE "HIGH"
    IN  /\ probe.fn = "_tier_capture_gap" =>
              /\ probe.out \in {"LOW", "MEDIUM", "HIGH"}
              /\ probe.out = Table(probe.args[1][1], 300, 600)
        /\ probe.fn = "_tier_imbalance" =>
              IF probe.args[1] = None THEN probe.out = "None"
              ELSE /\ probe.out \in {"LOW", "MEDIUM", "HIGH"}
                   /\ probe.out = Table(probe.args[1][1], 200, 400)
        /\ probe.fn = "_tier_fafi_ratio" =>
              /\ probe.out \in {"LOW", "MEDIUM", "HIGH"}
              /\ probe.out = Table(probe.args[1][1], 200, 450)

\* a ratio of exactly 0.30 was classified, and came out MEDIUM
C1_Witness ==
    /\ probe.fn = "_tier_capture_gap"
    /\ probe.args = << <<300, 1000>> >>
    /\ probe.out = "MEDIUM"

\* C2: inflow_tier returns NORMAL below watch, WATCH from watch up to but not
\* including surge, SURGE from surge on.
C2_InflowTierTable ==
    probe.fn = "inflow_tier" =>
        LET s == probe.args[1]
            watch == probe.args[2]
            surge == probe.args[3]
        IN  /\ s < watch => probe.out = "NORMAL"
            /\ (watch <= s /\ s < surge) => probe.out = "WATCH"
            /\ s >= surge => probe.out = "SURGE"

\* score 5.0 against watch 4.0 and surge 5.0: SURGE, the closed end
C2_Witness ==
    /\ probe.fn = "inflow_tier"
    /\ probe.args = <<500, 400, 500>>
    /\ probe.out = "SURGE"

\* C3: every pincode-month group of compute_bis_alerts carries the sums of its
\* rows, and its capture-gap ratio is 1 - bio_total/enrol_total for a non-zero
\* enrol_total and -bio_total for enrol_total = 0; 100 / 30 gives 0.70 and
\* HIGH, 0 / 5 gives -5.0; the call does not fail.
C3_CaptureGapRatio ==
    result.op = "bis" =>
        /\ result.status = "ok"
        /\ Len(result.alerts) = Len(result.grouped)
        /\ \A i \in DOMAIN result.grouped :
              LET g == result.grouped[i]
                  a == result.alerts[i]
                  T(r) == r.state = g.state /\ r.district = g.district
                          /\ r.pincode = g.pincode /\ r.month = g.month
                  rows == SelectSeq(dataset, T)
                  Enrol(r) == r.age_0_5 + r.age_5_17 + r.age_18_greater
                  Bio(r) == r.bio_age_5_17 + r.bio_age_17_
                  enrol_total == SumCol(rows, Enrol)
                  bio_total == SumCol(rows, Bio)
                  ratio == g.capture_gap_ratio
              IN  /\ rows # <<>>
                  /\ g.enrol_total = enrol_total /\ a.enrol_total = enrol_total
                  /\ g.bio_total = bio_total /\ a.bio_total = bio_total
                  /\ ratio[2] > 0
                  /\ enrol_total # 0 =>
                        ratio[1] * enrol_total = (enrol_total - bio_total) * ratio[2]
                  /\ enrol_total = 0 => ratio[1] = (0 - bio_total) * ratio[2]
                  /\ (enrol_total = 100 /\ bio_total = 30) =>
                        a.capture_gap_ratio = 70 /\ a.capture_gap_tier = "HIGH"
                  /\ (enrol_total = 0 /\ bio_total = 5) => a.capture_gap_ratio = -500

\* one result holds scenario A (100 / 30: 0.70, HIGH) and scenario B (0 / 5: -5.0)
C3_Witness ==
    /\ result.op = "bis"
    /\ \E i, j \in DOMAIN result.alerts :
          /\ result.alerts[i].enrol_total = 100 /\ result.alerts[i].bio_total = 30
          /\ result.alerts[i].capture_gap_ratio = 70
          /\ result.alerts[i].capture_gap_tier = "HIGH"
          /\ result.alerts[j].enrol_total = 0 /\ result.alerts[j].bio_total = 5
          /\ result.alerts[j].capture_gap_ratio = -500

\* C4: every district-month group of compute_lost_generation_alerts has
\* fafi_value = enrol_age_0_5 - bio_age_5_17_total and
\* fafi_ratio = fafi_value / max(enrol_age_0_5, 1), the totals being the sums
\* over the group's rows.
C4_FafiRatio ==
    result.op = "lg" =>
        /\ Len(result.alerts) = Len(result.grouped)
        /\ \A i \in DOMAIN result.grouped :
              LET g == result.grouped[i]
                  a == result.alerts[i]
                  T(r) == r.state = g.state /\ r.district = g.district
                          /\ r.month = g.month
                  rows == SelectSeq(dataset, T)
                  A05(r) == r.age_0_5
                  B517(r) == r.bio_age_5_17
                  enrol == SumCol(rows, A05)
                  bio == SumCol(rows, B517)
                  max1 == IF enrol > 1 THEN enrol ELSE 1
              IN  /\ rows # <<>>
                  /\ g.enrol_age_0_5 = enrol /\ a.enrol_age_0_5 = enrol
                  /\ g.bio_age_5_17_total = bio /\ a.bio_age_5_17 = bio
                  /\ g.fafi_value = enrol - bio /\ a.fafi_value = enrol - bio
                  /\ g.fafi_ratio[2] > 0
                  /\ g.fafi_ratio[1] * max1 = (enrol - bio) * g.fafi_ratio[2]

\* a district with children enrolled next to a district with none enrolled
\* (denominator 1)
C4_Witness ==
    /\ result.op = "lg"
    /\ \E i, j \in DOMAIN result.grouped :
          /\ result.grouped[i].enrol_age_0_5 = 50
          /\ result.grouped[i].fafi_value = 30
          /\ result.alerts[i].fafi_ratio = 60
          /\ result.grouped[j].enrol_age_0_5 = 0
          /\ result.grouped[j].fafi_value = -3
          /\ result.alerts[j].fafi_ratio = -300

\* C5: a call never returns more records than its limit / top_n, and the
\* records come in non-increasing order of the reported primary metric
\* (capture_gap_ratio, fafi_ratio, ml_inflow_score).
C5_LimitAndOrder ==
    (result.op \in {"bis", "lg", "ml"} /\ result.status = "ok") =>
        LET Metric(a) == IF result.op = "bis" THEN a.capture_gap_ratio
                         ELSE IF result.op = "lg" THEN a.fafi_ratio
                         ELSE a.ml_inflow_score
        IN  /\ Len(result.alerts) <= result.limit
            /\ \A i, j \in DOMAIN result.alerts :
                  i < j => Metric(result.alerts[i]) >= Metric(result.alerts[j])

\* two districts were scored, top_n = 1 kept one, and the one kept is the
\* second district with the higher score
C5_Witness ==
    /\ result.op = "ml" /\ result.status = "ok"
    /\ Len(result.grouped) = 2
    /\ result.limit = 1
    /\ Len(result.alerts) = 1
    /\ result.alerts[1].district = "d2"
    /\ result.alerts[1].ml_inflow_score = 600

\* C6: asking for a month no row of the dataset belongs to yields an empty
\* list from compute_bis_alerts and compute_lost_generation_alerts, and an
\* empty frame from predict_migration_model once the artifacts are loaded;
\* nothing is raised.
C6_AbsentMonthEmpty ==
    (result.month # None /\ result.month \notin MonthsOf(dataset)) =>
        /\ result.op \in {"bis", "lg"} =>
              result.status = "ok" /\ result.alerts = <<>>
        /\ (result.op = "ml" /\ model # None /\ thresholds # None) =>
              result.status = "ok" /\ result.alerts = <<>>

\* 2025-02 was asked of a cached frame that has rows, none of them in 2025-02
C6_Witness ==
    /\ result.op = "bis"
    /\ result.month = ToPeriodStr(20250201)
    /\ dataset # <<>>
    /\ result.alerts = <<>>

\* C7: without a requested month the computation works on the greatest month
\* string among the rows, which is the month of the latest date: on a
\* non-empty dataset the result is non-empty and all of it is in that month.
C7_LatestMonth ==
    (result.op \in {"bis", "lg", "ml"} /\ result.month = None /\ dataset # <<>>) =>
        LET latestDate == CHOOSE d \in { dataset[i].date : i \in DOMAIN dataset } :
                             \A i \in DOMAIN dataset : dataset[i].date <= d
            latest == ToPeriodStr(latestDate)
        IN  /\ \A m \in MonthsOf(dataset) : ~StrLess(latest, m)
            /\ result.status = "ok"
            /\ result.alerts # <<>>
            /\ \A i \in DOMAIN result.alerts : result.alerts[i].month = latest

\* the frame has a 2025-01 row before a 2024-12 row, and the alerts are for 2025-01
C7_Witness ==
    /\ result.op = "lg" /\ result.month = None
    /\ Len(dataset) = 2
    /\ dataset[1].month = ToPeriodStr(20250101)
    /\ dataset[2].month = ToPeriodStr(20241201)
    /\ result.alerts # <<>>
    /\ result.alerts[1].month = ToPeriodStr(20250101)

C9_StaysLoaded ==
    [][ (model # None /\ thresholds # None) =>
            /\ model' = model
            /\ thresholds' = thresholds
            /\ result' # result => result'.reads = {} ]_vars

\* Loaded from artifact 1, artifact 2 was written since, and the invocation
\* that followed answered without touching a file
C9_Witness ==
    /\ model = <<1>> /\ thresholds # None
    /\ modelFile = 2
    /\ result.op = "ml" /\ result.status = "ok"
    /\ result.reads = {}

\* C10: the adapter never caches one artifact without the other: after an
\* invocation in which a load failed, the cached model and the cached
\* thresholds are both unset.
C10_NoPartialCache ==
    (result.op = "ml" /\ result.status = "FileNotFoundError") =>
        (model = None /\ thresholds = None)

\* C11 as stated: whenever no candidate path exists for the model or none
\* exists for the threshold bundle, an invocation of predict_migration_model
\* ends in FileNotFoundError with no prediction made and no alert returned.
C11_AsStated ==
    [][ (result = NoResult /\ result'.op = "ml"
         /\ (modelFile = 0 \/ threshFile = 0)) =>
            /\ result'.status = "FileNotFoundError"
            /\ result'.grouped = <<>>
            /\ result'.alerts = <<>> ]_vars

\* C11: an invocation that has to load (the model or the thresholds are not
\* cached yet) and finds no candidate path for the model or none for the
\* threshold bundle ends in FileNotFoundError: no file is read, predict is
\* not called, no alert and no substitute score is returned, and the cached
\* fields stay as they were.
C11_NotFoundNoFallback ==
    [][ (result = NoResult /\ result'.op = "ml"
         /\ (model = None \/ thresholds = None)
         /\ (modelFile = 0 \/ threshFile = 0)) =>
            /\ result'.status = "FileNotFoundError"
            /\ result'.reads = {}
            /\ result'.grouped = <<>>
            /\ result'.alerts = <<>>
            /\ model' = model
            /\ thresholds' = thresholds ]_vars

\* the model file is there, the threshold bundle is not, and the invocation
\* failed before reading anything
C11_Witness ==
    /\ result.op = "ml" /\ result.status = "FileNotFoundError"
    /\ result.reads = {}
    /\ modelFile = 1 /\ threshFile = 0
    /\ model = None /\ thresholds = None

\* The rows of frame df that lie in the district of r, in a month before
\* r.month, with fewer than three months of that district between theirs and
\* r.month (df holds one row per district and month).
PrecedingRows(df, r) ==
    LET Same(x) == x.state = r.state /\ x.district = r.district
        Before(x) == Same(x) /\ StrLess(x.month, r.month)
        Between(x) == { j \in DOMAIN df : /\ Before(df[j])
                                          /\ StrLess(x.month, df[j].month) }
        T(x) == Before(x) /\ Cardinality(Between(x)) < 3
    IN  SelectSeq(df, T)

\* roll is the mean of the column values vals, NaN when there are none
IsMeanOf(roll, vals) ==
    IF vals = <<>> THEN roll = None
    ELSE roll # None /\ FracEqual(roll, <<SumSeq(vals), Len(vals)>>)

Demo17Of(rows) == [j \in DOMAIN rows |-> rows[j].demo_age_17_]
Demo5Of(rows) == [j \in DOMAIN rows |-> rows[j].demo_age_5_17]
Bio5Of(rows) == [j \in DOMAIN rows |-> rows[j].bio_age_5_17]
Bio17Of(rows) == [j \in DOMAIN rows |-> rows[j].bio_age_17_]

\* C12: each roll3 feature of a district's row for month M is the mean of the
\* measure over the (up to three) months of that district's series that
\* precede M, so the measure of M itself never enters it; for the fourth
\* month of a series it is the mean over months 1 to 3.
C12_Roll3NoLeakage ==
    (result.op = "ml" /\ result.status = "ok") =>
        \A i \in DOMAIN result.grouped :
            /\ IsMeanOf(result.grouped[i].demo_age_17___roll3,
                        Demo17Of(PrecedingRows(dataset, result.grouped[i])))
            /\ IsMeanOf(result.grouped[i].demo_age_5_17_roll3,
                        Demo5Of(PrecedingRows(dataset, result.grouped[i])))
            /\ IsMeanOf(result.grouped[i].bio_age_5_17_roll3,
                        Bio5Of(PrecedingRows(dataset, result.grouped[i])))
            /\ IsMeanOf(result.grouped[i].bio_age_17___roll3,
                        Bio17Of(PrecedingRows(dataset, result.grouped[i])))

\* a four-month series Nov 2024 .. Feb 2025 with measures 1, 1, 1, 2: the
\* feature of the fourth month is 3/3 although the month itself measures 2
C12_Witness ==
    /\ result.op = "ml" /\ result.status = "ok"
    /\ Len(dataset) = 5
    /\ \E i \in DOMAIN result.grouped :
          /\ result.grouped[i].district = "d1"
          /\ result.grouped[i].month = ToPeriodStr(20250201)
          /\ result.grouped[i].demo_age_17_ = 2
          /\ result.grouped[i].demo_age_17___roll3 = <<3, 3>>
          /\ Len(PrecedingRows(dataset, result.grouped[i])) = 3

\* position of a month in the calendar
MonthIndex(mo) == CHOOSE i \in DOMAIN MonthSeq : MonthSeq[i] = mo

\* The rows of frame df in the district of r whose month is one of the three
\* calendar months before r.month.
CalendarRows(df, r) ==
    LET T(x) == /\ x.state = r.state /\ x.district = r.district
                /\ MonthIndex(x.month) < MonthIndex(r.month)
                /\ MonthIndex(x.month) >= MonthIndex(r.month) - 3
    IN  SelectSeq(df, T)

\* C20: the roll3 feature of a district's row for month M is the mean of the
\* measure over those of the calendar months M-3 .. M-1 that the series has,
\* also when months are missing from the series: it has a value exactly when
\* one of these three months is present and uses no month before M-3.
C20_CalendarWindow ==
    (result.op = "ml" /\ result.status = "ok") =>
        \A i \in DOMAIN result.grouped :
            IsMeanOf(result.grouped[i].demo_age_17___roll3,
                     Demo17Of(CalendarRows(dataset, result.grouped[i])))

\* the tags of a list, and the position of a tag in it
TagSet(tags) == { tags[i] : i \in DOMAIN tags }
TagPos(tags, tag) == CHOOSE i \in DOMAIN tags : tags[i] = tag

IrisNamed(c) == Contains(Lower(c), TokIris) /\ Contains(Lower(c), TokUpdate)
FingerNamed(c) ==
    /\ Contains(Lower(c), TokFinger) \/ Contains(Lower(c), TokFp)
    /\ Contains(Lower(c), TokUpdate)

\* the rows of frame df in the pincode-month group of g
GroupRows(df, g) ==
    LET T(r) == /\ r.state = g.state /\ r.district = g.district
                /\ r.pincode = g.pincode /\ r.month = g.month
    IN  SelectSeq(df, T)

\* the column total of a further column over rows
ExtraTotal(rows, name) == SumSeq([j \in DOMAIN rows |-> ExtraValue(rows[j], name)])

\* abs(iris_total - finger_total) / (iris_total + finger_total + 1)
ImbalanceOf(iris_total, finger_total) ==
    << Abs(iris_total - finger_total), iris_total + finger_total + 1 >>

EquipmentRecommendations ==
    { "Check biometric equipment health (iris vs fingerprint)",
      "Audit operator workflows for iris and fingerprint capture balance" }

\* the alert a built from group g of frame df, given the iris-named columns
\* and the fingerprint-named columns of df in table order
ImbalanceAsStated(df, g, a, iris, finger) ==
    /\ (a.imbalance_score # None) <=> (iris # <<>> /\ finger # <<>>)
    /\ (iris # <<>> /\ finger # <<>>) =>
          /\ g.imbalance_score # None
          /\ FracEqual(g.imbalance_score,
                       ImbalanceOf(ExtraTotal(GroupRows(df, g), iris[1]),
                                   ExtraTotal(GroupRows(df, g), finger[1])))
    /\ (iris = <<>> \/ finger = <<>>) =>
          /\ a.imbalance_score = None
          /\ a.imbalance_tier = "None"
          /\ "Equipment / Operational anomaly" \notin TagSet(a.tags)
          /\ TagSet(a.recommendations) \cap EquipmentRecommendations = {}

\* C14: an alert of compute_bis_alerts carries an imbalance score iff the
\* table has a column named as an iris-update column and one named as a
\* fingerprint-update column; the score is then
\* abs(iris_total - finger_total) / (iris_total + finger_total + 1) over the
\* first such column of each family; otherwise every alert has no imbalance
\* score, no imbalance tier, no anomaly tag and no equipment recommendation.
C14_ImbalanceDetection ==
    result.op = "bis" =>
        \A i \in DOMAIN result.alerts :
            ImbalanceAsStated(dataset, result.grouped[i], result.alerts[i],
                              SelectSeq(ColumnsOf(dataset), IrisNamed),
                              SelectSeq(ColumnsOf(dataset), FingerNamed))

C16_NormalizerIdempotent ==
    probe.fn = "_ensure_month_column again" => probe.out = probe.args[1]

\* a table of day-first text without a month column, one row of it not a
\* date: the first call parsed, dropped that row and added the month column,
\* the second call changed nothing
C16_Witness ==
    /\ probe.fn = "_ensure_month_column again"
    /\ probe.args[2].date_dtype = "object" /\ ~probe.args[2].has_month
    /\ Len(probe.args[2].rows) = 2 /\ probe.args[2].rows[1].date = 0
    /\ Len(probe.args[1].rows) = 1
    /\ probe.args[1].rows[1].month = ToPeriodStr(20241201)
    /\ probe.out = probe.args[1]

\* the text has the form YYYY-MM
IsYearMonth(m) ==
    /\ Len(m) = 7 /\ m[5] = 45
    /\ \A i \in {1, 2, 3, 4, 6, 7} : m[i] \in 48..57

\* the parsed date of a cell of the date column of table t
ParsedDate(t, cell) == IF t.date_dtype = "object" THEN ToDatetime(cell) ELSE cell

\* the rows of table t whose date parses, in their order
ParseableRows(t) ==
    LET T(r) == ParsedDate(t, r.date) # NaT
    IN  SelectSeq(t.rows, T)

\* C17 as stated: after the normalizer has run on any table, the rows with an
\* unparseable date are gone, no error is raised, and every remaining row's
\* month has the form YYYY-MM and is its parsed date truncated to the month,
\* also when the table came with a month column.
C17_AsStated ==
    probe.fn = "_ensure_month_column" =>
        /\ Len(probe.out.rows) = Len(ParseableRows(probe.args[1]))
        /\ \A i \in DOMAIN probe.out.rows :
              /\ probe.out.rows[i].date # NaT
              /\ probe.out.rows[i].date
                    = ParsedDate(probe.args[1], ParseableRows(probe.args[1])[i].date)
              /\ IsYearMonth(probe.out.rows[i].month)
              /\ probe.out.rows[i].month = ToPeriodStr(probe.out.rows[i].date)

\* C17: after the normalizer has run on any table, the rows with an
\* unparseable date are gone and no error is raised; when the table came
\* without a month column every remaining row's month has the form YYYY-MM
\* and is its parsed date truncated to the month; when the table came with a
\* month column every remaining row keeps the month cell it came with.
C17_MonthFormat ==
    probe.fn = "_ensure_month_column" =>
        /\ Len(probe.out.rows) = Len(ParseableRows(probe.args[1]))
        /\ probe.out.has_month
        /\ \A i \in DOMAIN probe.out.rows :
              /\ probe.out.rows[i].date # NaT
              /\ probe.out.rows[i].date
                    = ParsedDate(probe.args[1], ParseableRows(probe.args[1])[i].date)
              /\ probe.out.rows[i].pincode = ParseableRows(probe.args[1])[i].pincode
              /\ ~probe.args[1].has_month =>
                    /\ IsYearMonth(probe.out.rows[i].month)
                    /\ probe.out.rows[i].month = ToPeriodStr(probe.out.rows[i].date)
              /\ probe.args[1].has_month =>
                    probe.out.rows[i].month = ParseableRows(probe.args[1])[i].month

\* a table with a month column: the row that is not a date is dropped, the
\* row dated 01-01-2025 keeps the month cell "2024-12" it came with
C17_Witness ==
    /\ probe.fn = "_ensure_month_column"
    /\ probe.args[1].date_dtype = "object" /\ probe.args[1].has_month
    /\ Len(probe.args[1].rows) = 2
    /\ probe.args[1].rows[1].date = 0
    /\ probe.args[1].rows[2].date = 1012025
    /\ Len(probe.out.rows) = 1
    /\ probe.out.rows[1].date = 20250101
    /\ probe.out.rows[1].month = ToPeriodStr(20241201)

-----------------------------------------------------------------------------
(* The alert routes at the API boundary *)

RouteOps == {"GET /alerts/biometric-integrity", "GET /alerts/lost-generation",
             "GET /alerts/migration-ml"}

\* the engine came back with an empty result
EngineReturnedNone == result.status = "ok" /\ result.alerts = <<>>

\* the response is a (month, alerts) pair with the engine's alerts in the
\* engine's order, under the month they all carry
RespondsWithPair ==
    /\ result.http.status_code = 200
    /\ result.http.alerts = result.alerts
    /\ \A i \in DOMAIN result.alerts : result.alerts[i].month = result.http.month
    /\ result.month # None => result.http.month = result.month

\* C18 as stated: a route responds 404 exactly when the engine returns no
\* alerts, and with the (month, alerts) pair in every other case.
C18_AsStated ==
    result.op \in RouteOps =>
        /\ (result.http.status_code = 404) <=> EngineReturnedNone
        /\ ~EngineReturnedNone => RespondsWithPair

\* C18: when the engine returns, the route responds 404 exactly when the
\* engine's alert list is empty and otherwise with the (month, alerts) pair
\* that keeps the engine's order; when the engine raises instead, a missing
\* file is also answered 404 and a data validation failure 500, both without
\* a pair.
C18_RouterNotFound ==
    result.op \in RouteOps =>
        /\ result.status = "ok" =>
             /\ (result.http.status_code = 404) <=> (result.alerts = <<>>)
             /\ result.alerts # <<>> => RespondsWithPair
        /\ result.status = "FileNotFoundError" => result.http = HttpError(404)
        /\ result.status = "DataValidationError" => result.http = HttpError(500)
        /\ result.status \in {"ok", "FileNotFoundError", "DataValidationError"}

\* a month the data set does not hold was requested of a loaded data set,
\* and the route answered 404
C18_Witness ==
    /\ result.op = "GET /alerts/biometric-integrity"
    /\ dataset # <<>>
    /\ result.month # None
    /\ EngineReturnedNone
    /\ result.http.status_code = 404

-----------------------------------------------------------------------------
(* Overlapping first calls of predict_migration_model *)

\* thread t is inside the cache-population block (lines 49-84)
InLoadBlock(t) == calls.frame[t].pc \in {"resolve", "load_model", "load_thresholds"}

\* at most one call is inside the cache-population block
LoadBlockExclusive ==
    \A t \in Threads, u \in Threads : InLoadBlock(t) /\ InLoadBlock(u) => t = u

\* each artifact file has been loaded at most once
LoadedAtMostOnce == calls.model_loads <= 1 /\ calls.thresholds_loads <= 1

\* a call that has run its inference read a model and thresholds that were
\* both set, and set by the same call's load
InferenceUnmixed ==
    \A t \in Threads :
        LET f == calls.frame[t]
        IN  /\ f.used_model # None => f.used_model.artifact # None
            /\ f.used_thresholds # None =>
                 /\ f.used_thresholds.artifact # None
                 /\ f.used_model.load = f.used_thresholds.load

\* C19: when first calls of predict_migration_model overlap, the
\* cache-population step is mutually exclusive, each artifact is loaded at
\* most once in total, and no call runs inference with a model from one load
\* and thresholds from another or with only one of the two set.
C19_ExclusiveCachePopulation ==
    /\ LoadBlockExclusive
    /\ LoadedAtMostOnce
    /\ InferenceUnmixed

-----------------------------------------------------------------------------
(* Inference features against training features *)

\* the training row of the district-month of an inference row
TrainingRowOf(df, r) ==
    LET k == [state |-> r.state, district |-> r.district]
        SameMonth(q) == q.month = r.month
    IN  SelectSeq(AddFeatures(k, MigrationSums(df, k)), SameMonth)

\* same column names, and under each name the same value (NaN equal to NaN
\* only, fractions compared by value)
SameFeatures(x, y) ==
    /\ { c[1] : c \in x } = { c[1] : c \in y }
    /\ \A c \in x, d \in y :
         c[1] = d[1] =>
           IF c[2] = None \/ d[2] = None THEN c[2] = d[2] ELSE FracEqual(c[2], d[2])

\* C21: every row predict_migration_model feeds to the model carries, under
\* the same column names, the ratio and roll3 values that add_features
\* computes for the same district-month at training time.
C21_SameFeaturePipeline ==
    (result.op = "ml" /\ result.status = "ok") =>
        \A i \in DOMAIN result.grouped :
            /\ Len(TrainingRowOf(dataset, result.grouped[i])) = 1
            /\ SameFeatures(InferenceX(result.grouped[i]),
                            TrainingX(TrainingRowOf(dataset, result.grouped[i])[1]))

-----------------------------------------------------------------------------
(* Rounding and tiering *)

\* the inflow score before rounding, 3 + 3 * clip((raw - raw_min) / denom),
\* is at least cut hundredths (raw_min <= raw_max; denom exceeds
\* raw_max - raw_min by 1e-9)
UnroundedScoreAtLeast(raw, raw_min, raw_max, cut) ==
    LET N == raw - raw_min
        D == raw_max - raw_min
    IN  IF cut <= 300 THEN TRUE
        ELSE IF N <= 0 THEN FALSE
        ELSE IF N > D THEN cut <= 600
        ELSE 300 * N > (cut - 300) * D

\* inflow_tier of the score before rounding
UnroundedInflowTier(raw, raw_min, raw_max, watch, surge) ==
    IF UnroundedScoreAtLeast(raw, raw_min, raw_max, surge) THEN "SURGE"
    ELSE IF UnroundedScoreAtLeast(raw, raw_min, raw_max, watch) THEN "WATCH"
    ELSE "NORMAL"

\* the BIS and Lost-Generation alerts: tier from the ratio of the group as
\* computed, the reported ratio its rounding
RoundedAtAssembly ==
    /\ result.op = "bis" =>
         \A i \in DOMAIN result.alerts :
            /\ result.alerts[i].capture_gap_tier
                 = TierCaptureGap(result.grouped[i].capture_gap_ratio)
            /\ result.alerts[i].capture_gap_ratio
                 = Round2(result.grouped[i].capture_gap_ratio)
            /\ result.alerts[i].imbalance_tier
                 = TierImbalance(result.grouped[i].imbalance_score)
            /\ result.grouped[i].imbalance_score # None =>
                 result.alerts[i].imbalance_score
                   = <<Round2(result.grouped[i].imbalance_score)>>
    /\ result.op = "lg" =>
         \A i \in DOMAIN result.alerts :
            /\ result.alerts[i].tier = TierFafiRatio(result.grouped[i].fafi_ratio)
            /\ result.alerts[i].fafi_ratio = Round2(result.grouped[i].fafi_ratio)

\* C22: in every module the tier is classified from the metric before
\* rounding and the 2-decimal rounding is applied afterwards, when the alert
\* is assembled; for the ML module, the tier of a prediction is the tier of
\* its unrounded inflow score.
C22_RoundOnlyAtAssembly ==
    /\ RoundedAtAssembly
    /\ probe.fn = "ml_inflow_score, tier" =>
         probe.out.tier = UnroundedInflowTier(probe.args[1], probe.args[2], probe.args[3],
                                              probe.args[4], probe.args[5])

-----------------------------------------------------------------------------
(* Row order *)

\* the cached frame with its rows in the order p
Permuted(p) == [i \in DOMAIN dataset |-> dataset[p[i]]]

\* no two rows of a result have the same grouping key
KeysDistinct(alerts, Key(_)) ==
    \A i \in DOMAIN alerts, j \in DOMAIN alerts : Key(alerts[i]) = Key(alerts[j]) => i = j

BisKey(a) == <<a.state, a.district, a.pincode, a.month>>
LostGenKey(a) == <<a.state, a.district, a.month>>

\* C23: compute_bis_alerts and compute_lost_generation_alerts return the same
\* alerts for every order of the data set's rows, and the alerts of one
\* result have pairwise different grouping keys.
C23_RowOrderIndependent ==
    /\ result.op = "bis" =>
         /\ \A p \in Permutations(DOMAIN dataset) :
               ComputeBisAlerts(Permuted(p), result.month, result.limit) = result.alerts
         /\ KeysDistinct(result.alerts, BisKey)
    /\ result.op = "lg" =>
         /\ \A p \in Permutations(DOMAIN dataset) :
               ComputeLostGenerationAlerts(Permuted(p), result.month, result.limit)
                 = result.alerts
         /\ KeysDistinct(result.alerts, LostGenKey)

\* two rows of different districts, in the CSV in the reverse of key order,
\* tie on the ratio and both make it into the Lost-Generation result
C23_Witness ==
    /\ result.op = "lg"
    /\ Len(dataset) = 2
    /\ dataset[1].district = "d2"
    /\ dataset[2].district = "d1"
    /\ Len(result.alerts) = 2
    /\ result.alerts[1].fafi_ratio = result.alerts[2].fafi_ratio

-----------------------------------------------------------------------------
(* The dataset cache *)

\* C24: no alert query (BIS, Lost-Generation or ML, any month and limit)
\* changes the rows, columns or values of the frame the dataset cache holds,
\* and the answer to a query is the answer computed from the frame as it was
\* cached.
C24_CacheNeverMutated ==
    [][ /\ dataset' = dataset
        /\ result'.op = "bis" =>
             result'.alerts = ComputeBisAlerts(dataset, result'.month, result'.limit)
        /\ result'.op = "lg" =>
             result'.alerts
               = ComputeLostGenerationAlerts(dataset, result'.month, result'.limit)
        /\ (result'.op = "ml" /\ result'.status = "ok") =>
             result'.grouped = MigrationPredDf(dataset, result'.month) ]_vars

\* the ML adapter has answered a query with alerts: all its statements, the
\* column assignments included, have run
C24_Witness ==
    /\ result.op = "ml"
    /\ result.status = "ok"
    /\ result.alerts # <<>>
    /\ model # None

-----------------------------------------------------------------------------
(* Schema validation *)

\* the two January rows as compute_bis_alerts would see them had the columns
\* outside `columns` been in the CSV with 0 in every cell
ZeroedRows(columns) ==
    LET df == GetMergedAadhaarDataframe(AdapterCsv)
        Cell(v, c) == IF c \in columns THEN v ELSE 0
    IN  [i \in DOMAIN df |->
           [df[i] EXCEPT !.age_0_5 = Cell(@, RequiredColumns[5]),
                         !.age_5_17 = Cell(@, RequiredColumns[6]),
                         !.age_18_greater = Cell(@, RequiredColumns[7]),
                         !.demo_age_5_17 = Cell(@, RequiredColumns[8]),
                         !.demo_age_17_ = Cell(@, RequiredColumns[9]),
                         !.bio_age_5_17 = Cell(@, RequiredColumns[10]),
                         !.bio_age_17_ = Cell(@, RequiredColumns[11])]]

\* C25 as stated: the data validation error is raised only when every
\* required column is absent, and a data set that lacks only some measure
\* columns loads without error, the missing measures counting as zero.
C25_AsStated ==
    /\ (probe.fn = "get_dataset" /\ probe.out = "DataValidationError") =>
          probe.args[1] = {}
    /\ probe.fn = "compute_bis_alerts" =>
          probe.out = ComputeBisAlerts(ZeroedRows(probe.args[1]), None, probe.args[2])

\* C25: get_dataset raises the data validation error exactly when at least
\* one required column (a measure column included) is absent or the data set
\* has no row with a date; compute_bis_alerts, which reads the frame that is
\* not validated, raises nothing for absent measure columns and counts them
\* as zero.
C25_ValidationError ==
    /\ probe.fn = "get_dataset" =>
          (probe.out = "DataValidationError"
             <=> \/ probe.args[1] # RequiredSet
                 \/ \A i \in DOMAIN probe.args[2] : ToDatetime(probe.args[2][i].date) = NaT)
    /\ probe.fn = "compute_bis_alerts" =>
          probe.out = ComputeBisAlerts(ZeroedRows(probe.args[1]), None, probe.args[2])

\* a CSV with rows and dates that lacks one measure column only was refused
C25_Witness ==
    /\ probe.fn = "get_dataset"
    /\ probe.args[1] = RequiredSet \ { RequiredColumns[11] }
    /\ probe.args[2] = AdapterCsv
    /\ probe.out = "DataValidationError"

-----------------------------------------------------------------------------
(* Tier against the reported metric *)

\* C26: in every alert record, classifying the reported 2-decimal metric
\* (capture_gap_ratio, imbalance_score, fafi_ratio) with the tier table of
\* the module gives the tier of the record.
C26_TierMatchesReportedMetric ==
    /\ result.op = "bis" =>
         \A i \in DOMAIN result.alerts :
            /\ result.alerts[i].capture_gap_tier
                 = TierCaptureGap(<<result.alerts[i].capture_gap_ratio, 100>>)
            /\ result.alerts[i].imbalance_score # None =>
                 result.alerts[i].imbalance_tier
                   = TierImbalance(<<result.alerts[i].imbalance_score[1], 100>>)
    /\ result.op = "lg" =>
         \A i \in DOMAIN result.alerts :
            result.alerts[i].tier = TierFafiRatio(<<result.alerts[i].fafi_ratio, 100>>)

\* the tier of the table with lower bound lo and upper bound hi (hundredths)
\* that the ratio num/den falls in
InBand(tier, ratio, lo, hi) ==
    /\ tier = "LOW" <=> 100 * ratio[1] < lo * ratio[2]
    /\ tier = "HIGH" <=> 100 * ratio[1] > hi * ratio[2]
    /\ tier \in {"LOW", "MEDIUM", "HIGH"}

\* C26: the tier of a record is the tier of the metric of its group before
\* rounding; it is the tier of the reported 2-decimal value too unless the
\* rounding moved the value onto a bound of the table (0.30 or 0.60 for
\* capture_gap_ratio, 0.20 or 0.40 for imbalance_score, 0.20 or 0.45 for
\* fafi_ratio).
C26_TierOfUnroundedMetric ==
    /\ result.op = "bis" =>
         \A i \in DOMAIN result.alerts :
            LET a == result.alerts[i]
                g == result.grouped[i]
            IN  /\ InBand(a.capture_gap_tier, g.capture_gap_ratio, 30, 60)
                /\ a.capture_gap_tier # TierCaptureGap(<<a.capture_gap_ratio, 100>>)
                      => a.capture_gap_ratio \in {30, 60}
                /\ g.imbalance_score # None =>
                      /\ InBand(a.imbalance_tier, g.imbalance_score, 20, 40)
                      /\ a.imbalance_tier # TierImbalance(<<a.imbalance_score[1], 100>>)
                            => a.imbalance_score[1] \in {20, 40}
    /\ result.op = "lg" =>
         \A i \in DOMAIN result.alerts :
            LET a == result.alerts[i]
                g == result.grouped[i]
            IN  /\ InBand(a.tier, g.fafi_ratio, 20, 45)
                /\ a.tier # TierFafiRatio(<<a.fafi_ratio, 100>>)
                      => a.fafi_ratio \in {20, 45}

\* a Lost-Generation record reports 0.20 and is tiered LOW, its group's
\* ratio being 196/1000
C26_Witness ==
    /\ result.op = "lg"
    /\ \E i \in DOMAIN result.alerts :
          /\ result.alerts[i].fafi_ratio = 20
          /\ result.alerts[i].tier = "LOW"
          /\ result.grouped[i].fafi_ratio = <<196, 1000>>

-----------------------------------------------------------------------------
(* The detected pair of biometric columns *)

\* C27: whenever _detect_optional_bio_columns returns a pair for the table
\* compute_bis_alerts works on, the iris column and the fingerprint column
\* are two different columns, so the imbalance score of every alert compares
\* the totals of two distinct columns.
C27_DistinctBioColumns ==
    result.op = "bis" =>
        LET pair == DetectOptionalBioColumns(ColumnsOf(dataset))
        IN  pair # None => pair[1] # pair[2]

-----------------------------------------------------------------------------
(* Order of the artifact load and the month check *)

\* an invocation of predict_migration_model has just returned or raised
PredictInvocation == result = NoResult /\ result'.op = "ml"

\* C28: in predict_migration_model the artifact load comes before the month
\* check: an invocation made while the model or the thresholds are not cached
\* and a model or threshold file is missing ends in FileNotFoundError whatever
\* month is requested (a month without rows included), and the model's
\* predict is called only with both artifacts cached and only on a target
\* month that has a row in the data set.
C28_LoadBeforeMonthCheck ==
    [][ PredictInvocation =>
          /\ ((model = None \/ thresholds = None) /\ (modelFile = 0 \/ threshFile = 0))
                => (result'.status = "FileNotFoundError" /\ result'.alerts = <<>>)
          /\ result'.alerts # <<>> => (result'.status = "ok" /\ result'.grouped # <<>>)
          /\ (result'.status = "ok" /\ result'.grouped # <<>>) =>
                /\ model' # None /\ thresholds' # None
                /\ LET target == IF result'.month = None THEN MaxMonth(dataset)
                                 ELSE result'.month
                   IN  \E i \in DOMAIN dataset : dataset[i].month = target ]_vars

\* nothing is cached, the model file is missing, and an invocation for a
\* month without rows ended in FileNotFoundError
C28_Witness ==
    /\ result.op = "ml" /\ result.status = "FileNotFoundError"
    /\ model = None /\ thresholds = None
    /\ modelFile = 0
    /\ result.month # None
    /\ \A i \in DOMAIN dataset : dataset[i].month # result.month

\* the data set has rows, both artifacts are cached and predict was called on
\* the rows of the latest month
C28_PredictCalled ==
    /\ result.op = "ml" /\ result.status = "ok" /\ result.alerts # <<>>
    /\ model # None /\ thresholds # None

-----------------------------------------------------------------------------
(* One month per result *)

\* C29: all alerts of one result of compute_bis_alerts,
\* compute_lost_generation_alerts or predict_migration_model carry the
\* resolved month (the requested month, or the latest month of the data set
\* when none is requested), and the month a route puts in its response, taken
\* from the first alert, is the month of every alert of the response.
C29_OneMonthPerResult ==
    (result.op # "none" /\ result.status = "ok") =>
        LET resolved == IF result.month = None THEN MaxMonth(dataset) ELSE result.month
        IN  /\ \A i \in DOMAIN result.alerts : result.alerts[i].month = resolved
            /\ result.http.status_code = 200 =>
                  /\ result.http.month = resolved
                  /\ result.http.alerts # <<>>
                  /\ \A i \in DOMAIN result.http.alerts :
                        result.http.alerts[i].month = result.http.month

\* the data set has rows of two months, an earlier month was requested and
\* the biometric-integrity route answered with alerts
C29_Witness ==
    /\ result.op = "GET /alerts/biometric-integrity"
    /\ result.http.status_code = 200
    /\ result.month # None
    /\ \E i, j \in DOMAIN dataset : StrLess(result.month, dataset[j].month)
                                     /\ dataset[i].month = result.month

-----------------------------------------------------------------------------
(* Range and sign of the ratios *)

\* the ratio num/den (den > 0) of a group with totals enrol and bio and its
\* reported value in hundredths: at most 1, negative exactly when bio exceeds
\* enrol, and a reported value below zero only then
RatioInRange(ratio, reported, enrol, bio) ==
    /\ ratio[2] > 0
    /\ ratio[1] <= ratio[2]
    /\ reported <= 100
    /\ ratio[1] < 0 <=> bio > enrol
    /\ reported < 0 => bio > enrol
    /\ bio > enrol => reported <= 0

\* C30: with non-negative measure columns every alert has capture_gap_ratio
\* at most 1 and fafi_ratio at most 1, the ratio of a group is negative
\* exactly when its biometric total exceeds its enrolment total, and a group
\* without enrolment is tiered LOW.
C30_RatioRange ==
    /\ result.op = "bis" =>
         \A i \in DOMAIN result.alerts :
            LET a == result.alerts[i]
                g == result.grouped[i]
            IN  /\ RatioInRange(g.capture_gap_ratio, a.capture_gap_ratio,
                                a.enrol_total, a.bio_total)
                /\ a.enrol_total = 0 => a.capture_gap_tier = "LOW"
    /\ result.op = "lg" =>
         \A i \in DOMAIN result.alerts :
            LET a == result.alerts[i]
                g == result.grouped[i]
            IN  /\ RatioInRange(g.fafi_ratio, a.fafi_ratio, a.enrol_age_0_5, a.bio_age_5_17)
                /\ a.enrol_age_0_5 = 0 => a.tier = "LOW"

\* a pincode without enrolment and with five biometric updates: ratio -5,
\* tier LOW
C30_Witness ==
    /\ result.op = "bis"
    /\ \E i \in DOMAIN result.alerts :
          /\ result.alerts[i].enrol_total = 0
          /\ result.alerts[i].bio_total = 5
          /\ result.alerts[i].capture_gap_ratio = -500
          /\ result.alerts[i].capture_gap_tier = "LOW"

====
